---- MODULE Spec2Model ----
(***************************************************************************)
(* Model of the similarity-matching and pair-discovery core of kapaCheck:  *)
(*   src/src/lib/similarity.ts                                             *)
(*   src/src/app/api/consolidation-opportunities/route.ts                  *)
(*                                                                         *)
(* Scores are JavaScript numbers (IEEE-754 binary64).  They are modelled   *)
(* exactly: a positive double is a 53-bit mantissa times a power of two,   *)
(* the mantissa held as a little-endian sequence of 14-bit limbs, and      *)
(* Math.sqrt, * and / round to nearest, ties to even, as the hardware      *)
(* does.  The values that occur here (between 2^-60 and 2^60) are far from *)
(* the subnormal and overflow ranges, which are not modelled.              *)
(***************************************************************************)
EXTENDS Integers, Sequences, FiniteSets, TLC

(***************************************************************************)
(* Natural numbers of arbitrary size: <<>> is 0, limbs are little-endian,  *)
(* the highest limb is never 0.                                            *)
(***************************************************************************)
LimbBits == 14
Limb == 2^LimbBits

RECURSIVE BigNorm(_)
BigNorm(a) ==
    IF a = <<>> THEN <<>>
    ELSE IF a[Len(a)] = 0 THEN BigNorm(SubSeq(a, 1, Len(a) - 1))
    ELSE a

BigFromInt(n) ==
    BigNorm(<< n % Limb, (n \div Limb) % Limb, n \div (Limb * Limb) >>)

BigLimb(a, i) == IF i <= Len(a) THEN a[i] ELSE 0

BigMax(x, y) == IF x >= y THEN x ELSE y

RECURSIVE BigAddFrom(_, _, _, _)
BigAddFrom(a, b, i, carry) ==
    IF i > BigMax(Len(a), Len(b))
    THEN IF carry = 0 THEN <<>> ELSE << carry >>
    ELSE LET s == BigLimb(a, i) + BigLimb(b, i) + carry
         IN  << s % Limb >> \o BigAddFrom(a, b, i + 1, s \div Limb)

BigAdd(a, b) == BigAddFrom(a, b, 1, 0)

\* a - b, for a >= b
RECURSIVE BigSubFrom(_, _, _, _)
BigSubFrom(a, b, i, borrow) ==
    IF i > Len(a) THEN <<>>
    ELSE LET d == BigLimb(a, i) - BigLimb(b, i) - borrow
         IN  IF d < 0
             THEN << d + Limb >> \o BigSubFrom(a, b, i + 1, 1)
             ELSE << d >> \o BigSubFrom(a, b, i + 1, 0)

BigSub(a, b) == BigNorm(BigSubFrom(a, b, 1, 0))

\* -1, 0 or 1 as a < b, a = b or a > b; i runs from the highest limb down
RECURSIVE BigCmpFrom(_, _, _)
BigCmpFrom(a, b, i) ==
    IF i = 0 THEN 0
    ELSE IF a[i] < b[i] THEN -1
    ELSE IF a[i] > b[i] THEN 1
    ELSE BigCmpFrom(a, b, i - 1)

BigCmp(a, b) ==
    IF Len(a) < Len(b) THEN -1
    ELSE IF Len(a) > Len(b) THEN 1
    ELSE BigCmpFrom(a, b, Len(a))

\* a * k for 0 <= k < Limb
RECURSIVE BigMulSmallFrom(_, _, _, _)
BigMulSmallFrom(a, k, i, carry) ==
    IF i > Len(a)
    THEN IF carry = 0 THEN <<>> ELSE << carry >>
    ELSE LET p == a[i] * k + carry
         IN  << p % Limb >> \o BigMulSmallFrom(a, k, i + 1, p \div Limb)

BigMulSmall(a, k) == BigNorm(BigMulSmallFrom(a, k, 1, 0))

\* a * Limb^n
RECURSIVE BigShiftLimbs(_, _)
BigShiftLimbs(a, n) ==
    IF a = <<>> \/ n = 0 THEN a ELSE BigShiftLimbs(<< 0 >> \o a, n - 1)

RECURSIVE BigMulFrom(_, _, _)
BigMulFrom(a, b, i) ==
    IF i > Len(b) THEN <<>>
    ELSE BigAdd(BigShiftLimbs(BigMulSmall(a, b[i]), i - 1),
                BigMulFrom(a, b, i + 1))

BigMul(a, b) == BigMulFrom(a, b, 1)

\* a * 2^k
BigShl(a, k) ==
    BigShiftLimbs(BigMulSmall(a, 2^(k % LimbBits)), k \div LimbBits)

\* floor(a / d) for 0 < d <= Limb; i runs from the highest limb down
RECURSIVE BigDivSmallFrom(_, _, _, _)
BigDivSmallFrom(a, d, i, rem) ==
    IF i = 0 THEN <<>>
    ELSE LET cur == rem * Limb + a[i]
         IN  BigDivSmallFrom(a, d, i - 1, cur % d) \o << cur \div d >>

BigDivSmall(a, d) == BigNorm(BigDivSmallFrom(a, d, Len(a), 0))

\* floor(a / 2^k)
BigShr(a, k) ==
    LET whole == k \div LimbBits
    IN  IF whole >= Len(a) THEN <<>>
        ELSE BigDivSmall(SubSeq(a, whole + 1, Len(a)), 2^(k % LimbBits))

\* the number of bits of a (0 for 0)
RECURSIVE IntBitLen(_)
IntBitLen(n) == IF n = 0 THEN 0 ELSE 1 + IntBitLen(n \div 2)

BigBitLen(a) ==
    IF a = <<>> THEN 0
    ELSE (Len(a) - 1) * LimbBits + IntBitLen(a[Len(a)])

BigOdd(a) == a # <<>> /\ a[1] % 2 = 1

(***************************************************************************)
(* Non-negative IEEE-754 binary64 numbers.  FZero is 0; any other value is *)
(* [m |-> M, e |-> E] with 2^52 <= M < 2^53, standing for M * 2^E.  The    *)
(* representation is unique, so two doubles are equal iff their records    *)
(* are.                                                                    *)
(***************************************************************************)
MantBits == 53

FZero == [m |-> <<>>, e |-> 0]

\* A mantissa r, which rounding up may have taken to 2^MantBits, with its
\* exponent
FPack(r, e) ==
    IF BigBitLen(r) > MantBits
    THEN [m |-> BigShr(r, 1), e |-> e + 1]
    ELSE [m |-> r, e |-> e]

\* Round to nearest, ties to even: q is the mantissa cut off, guard the first
\* bit dropped, rest whether anything lies below the guard bit
FRoundUp(q, guard, rest, e) ==
    FPack(IF guard /\ (rest \/ BigOdd(q)) THEN BigAdd(q, << 1 >>) ELSE q, e)

\* n with its lowest k >= 1 bits dropped; upper is floor(n / 2^(k - 1))
FRoundCut(n, upper, k, e, sticky) ==
    FRoundUp(BigShr(upper, 1), BigOdd(upper),
             sticky \/ BigShl(upper, k - 1) # n, e + k)

FRoundLen(n, len, e, sticky) ==
    IF len <= MantBits
    THEN [m |-> BigShl(n, MantBits - len), e |-> e - (MantBits - len)]
    ELSE FRoundCut(n, BigShr(n, len - MantBits - 1), len - MantBits, e, sticky)

\* The double nearest to a value v with n * 2^e <= v < (n + 1) * 2^e, where
\* sticky says that v > n * 2^e.  With sticky set n has more than
\* MantBits + 1 bits.
FRound(n, e, sticky) == FRoundLen(n, BigBitLen(n), e, sticky)

\* an integer 0 <= n < 2^31 as a double (exact)
FFromInt(n) == IF n = 0 THEN FZero ELSE FRound(BigFromInt(n), 0, FALSE)

FOne == FFromInt(1)

\* -1, 0 or 1 as x < y, x = y or x > y
FCmp(x, y) ==
    IF x = y THEN 0
    ELSE IF x = FZero THEN -1
    ELSE IF y = FZero THEN 1
    ELSE IF x.e < y.e THEN -1
    ELSE IF x.e > y.e THEN 1
    ELSE BigCmp(x.m, y.m)

FLeq(x, y) == FCmp(x, y) <= 0
FLess(x, y) == FCmp(x, y) < 0

\* x * y, rounded
FMul(x, y) ==
    IF x = FZero \/ y = FZero THEN FZero
    ELSE FRound(BigMul(x.m, y.m), x.e + y.e, FALSE)

\* One step of restoring division by p: q2 and r2 are the quotient and the
\* remainder so far, doubled
BigDivNext(q2, r2, p) ==
    IF BigCmp(r2, p) >= 0
    THEN [quot |-> BigAdd(q2, << 1 >>), rem |-> BigSub(r2, p)]
    ELSE [quot |-> q2, rem |-> r2]

BigDivStep(qr, p) == BigDivNext(BigAdd(qr.quot, qr.quot), BigAdd(qr.rem, qr.rem), p)

\* floor(r * 2^k / p) and the remainder, for r < p: k steps
BigDivBits(r, p, k) ==
    LET BigNat == Seq(0 .. Limb - 1)
        step[qr \in [quot : BigNat, rem : BigNat], i \in 0 .. k] ==
            IF i = 0 THEN qr ELSE step[BigDivStep(qr, p), i - 1]
    IN  step[[quot |-> <<>>, rem |-> r], k]

DivBits == MantBits + 3

FDivFirst(x, y, first) ==
    LET d == BigDivBits(IF first THEN BigSub(x.m, y.m) ELSE x.m, y.m, DivBits)
    IN  FRound(IF first THEN BigAdd(BigShl(<< 1 >>, DivBits), d.quot)
               ELSE d.quot,
               x.e - y.e - DivBits, d.rem # <<>>)

\* x / y for y # 0, rounded.  Both mantissas have MantBits bits, so
\* x.m < 2 * y.m and the first quotient bit is decided by one comparison.
FDiv(x, y) ==
    IF x = FZero THEN FZero ELSE FDivFirst(x, y, BigCmp(x.m, y.m) >= 0)

\* c if its square fits under n, else r
BigSqrtPick(r, c, n) == IF BigCmp(BigMul(c, c), n) <= 0 THEN c ELSE r

\* floor(sqrt(n)) for n < 2^(2 * bits): from the highest bit down, a bit of
\* the root is set when the square still fits under n
BigSqrt(n, bits) ==
    LET from[r \in Seq(0 .. Limb - 1), b \in 0 .. bits] ==
            IF b = 0 THEN r
            ELSE from[BigSqrtPick(r, BigAdd(r, BigShl(<< 1 >>, b - 1)), n), b - 1]
    IN  from[<<>>, bits]

SqrtBits == 2 * (MantBits + 2)

FSqrtRound(big, root, s) == FRound(root, 0 - s, BigMul(root, root) # big)

FSqrtShift(n, s2) ==
    FSqrtRound(BigShl(BigFromInt(n), s2),
               BigSqrt(BigShl(BigFromInt(n), s2), MantBits + 2), s2 \div 2)

\* Math.sqrt(n) for an integer 1 <= n < 2^31: the root of n * 2^(2s) is taken
\* to MantBits + 2 bits and rounded
FSqrtOf(n) ==
    FSqrtShift(n, (SqrtBits - IntBitLen(n)) - ((SqrtBits - IntBitLen(n)) % 2))

(***************************************************************************)
(* Text.  A string is a sequence of one-character strings; an optional     *)
(* string (description?: string) is <<>> when absent and << s >> when      *)
(* present.                                                                *)
(***************************************************************************)
UpperCase ==
    << "A", "B", "C", "D", "E", "F", "G", "H", "I", "J", "K", "L", "M",
       "N", "O", "P", "Q", "R", "S", "T", "U", "V", "W", "X", "Y", "Z" >>

LowerCase ==
    << "a", "b", "c", "d", "e", "f", "g", "h", "i", "j", "k", "l", "m",
       "n", "o", "p", "q", "r", "s", "t", "u", "v", "w", "x", "y", "z" >>

Digit == { "0", "1", "2", "3", "4", "5", "6", "7", "8", "9" }

\* the characters the model's texts use that /\s/ matches
WhiteSpace == { " ", "\t", "\n", "\r" }

Range(f) == { f[i] : i \in DOMAIN f }

\* String.prototype.toLowerCase on one character
LowerChar(ch) ==
    IF ch \in Range(UpperCase)
    THEN LowerCase[CHOOSE i \in DOMAIN UpperCase : UpperCase[i] = ch]
    ELSE ch

toLowerCase(text) == [i \in 1 .. Len(text) |-> LowerChar(text[i])]

\* A variant of replaceNonAlphanumeric that deletes the characters instead of
\* putting spaces.
removeNonAlphanumeric(text) ==
    SelectSeq(text, LAMBDA ch : ch \in Range(LowerCase) \cup Digit \cup WhiteSpace)

\* .replace(/[^a-z0-9\s]/g, " ")
replaceNonAlphanumeric(text) ==
    [i \in 1 .. Len(text) |->
        IF text[i] \in Range(LowerCase) \cup Digit \cup WhiteSpace
        THEN text[i] ELSE " "]

\* the k-th smallest member of a set of integers
KthSmallest(set, k) ==
    CHOOSE i \in set : Cardinality({ j \in set : j < i }) = k - 1

\* .split(/\s+/): the pieces between maximal runs of white space, with an
\* empty piece before a leading run and after a trailing one
splitWhiteSpace(text) ==
    LET n        == Len(text)
        sp(i)    == text[i] \in WhiteSpace
        starts   == { i \in 1 .. n : ~sp(i) /\ (i = 1 \/ sp(i - 1)) }
        stop(i)  == CHOOSE j \in i .. n :
                        /\ j = n \/ sp(j + 1)
                        /\ \A k \in i .. j : ~sp(k)
        words    == [k \in 1 .. Cardinality(starts) |->
                        SubSeq(text, KthSmallest(starts, k),
                               stop(KthSmallest(starts, k)))]
    IN  IF n = 0 THEN << <<>> >>
        ELSE (IF sp(1) THEN << <<>> >> ELSE <<>>)
             \o words
             \o (IF sp(n) THEN << <<>> >> ELSE <<>>)

STOPWORDS == {
    <<"a">>, <<"a", "n">>, <<"t", "h", "e">>, <<"a", "n", "d">>,
    <<"o", "r">>, <<"b", "u", "t">>, <<"i", "n">>, <<"o", "n">>,
    <<"a", "t">>, <<"t", "o">>, <<"f", "o", "r">>, <<"o", "f">>,
    <<"w", "i", "t", "h">>, <<"b", "y">>, <<"f", "r", "o", "m">>,
    <<"a", "s">>, <<"i", "s">>, <<"w", "a", "s">>, <<"a", "r", "e">>,
    <<"w", "e", "r", "e">>, <<"b", "e", "e", "n">>, <<"b", "e">>,
    <<"h", "a", "v", "e">>, <<"h", "a", "s">>, <<"h", "a", "d">>,
    <<"d", "o">>, <<"d", "o", "e", "s">>, <<"d", "i", "d">>,
    <<"w", "i", "l", "l">>, <<"w", "o", "u", "l", "d">>,
    <<"c", "o", "u", "l", "d">>, <<"s", "h", "o", "u", "l", "d">>,
    <<"m", "a", "y">>, <<"m", "i", "g", "h", "t">>, <<"m", "u", "s", "t">>,
    <<"s", "h", "a", "l", "l">>, <<"c", "a", "n">>, <<"n", "e", "e", "d">>,
    <<"d", "a", "r", "e">>, <<"o", "u", "g", "h", "t">>,
    <<"u", "s", "e", "d">>, <<"i", "t">>, <<"i", "t", "s">>,
    <<"t", "h", "i", "s">>, <<"t", "h", "a", "t">>,
    <<"t", "h", "e", "s", "e">>, <<"t", "h", "o", "s", "e">>, <<"i">>,
    <<"y", "o", "u">>, <<"h", "e">>, <<"s", "h", "e">>, <<"w", "e">>,
    <<"t", "h", "e", "y">>, <<"w", "h", "a", "t">>,
    <<"w", "h", "i", "c", "h">>, <<"w", "h", "o">>, <<"w", "h", "o", "m">>,
    <<"w", "h", "e", "n">>, <<"w", "h", "e", "r", "e">>, <<"w", "h", "y">>,
    <<"h", "o", "w">>, <<"a", "l", "l">>, <<"e", "a", "c", "h">>,
    <<"e", "v", "e", "r", "y">>, <<"b", "o", "t", "h">>, <<"f", "e", "w">>,
    <<"m", "o", "r", "e">>, <<"m", "o", "s", "t">>,
    <<"o", "t", "h", "e", "r">>, <<"s", "o", "m", "e">>,
    <<"s", "u", "c", "h">>, <<"n", "o">>, <<"n", "o", "r">>,
    <<"n", "o", "t">>, <<"o", "n", "l", "y">>, <<"o", "w", "n">>,
    <<"s", "a", "m", "e">>, <<"s", "o">>, <<"t", "h", "a", "n">>,
    <<"t", "o", "o">>, <<"v", "e", "r", "y">>, <<"j", "u", "s", "t">>,
    <<"a", "l", "s", "o">>, <<"n", "o", "w">>, <<"h", "e", "r", "e">>,
    <<"t", "h", "e", "r", "e">>, <<"t", "h", "e", "n">>,
    <<"o", "n", "c", "e">>, <<"i", "f">>,
    <<"b", "e", "c", "a", "u", "s", "e">>, <<"u", "n", "t", "i", "l">>,
    <<"w", "h", "i", "l", "e">>, <<"a", "b", "o", "u", "t">>,
    <<"i", "n", "t", "o">>, <<"t", "h", "r", "o", "u", "g", "h">>,
    <<"d", "u", "r", "i", "n", "g">>, <<"b", "e", "f", "o", "r", "e">>,
    <<"a", "f", "t", "e", "r">>, <<"a", "b", "o", "v", "e">>,
    <<"b", "e", "l", "o", "w">>, <<"b", "e", "t", "w", "e", "e", "n">>,
    <<"u", "n", "d", "e", "r">>, <<"a", "g", "a", "i", "n">>,
    <<"f", "u", "r", "t", "h", "e", "r">>, <<"a", "n", "y">>,
    <<"o", "u", "r">>, <<"y", "o", "u", "r">>, <<"t", "h", "e", "i", "r">>,
    <<"m", "y">>, <<"h", "i", "s">>, <<"h", "e", "r">>, <<"u", "p">>,
    <<"d", "o", "w", "n">>, <<"o", "u", "t">>, <<"o", "f", "f">>,
    <<"o", "v", "e", "r">>, <<"a", "m">>, <<"b", "e", "i", "n", "g">>,
    <<"g", "e", "t">>, <<"g", "o", "t">>,
    <<"g", "e", "t", "t", "i", "n", "g">>, <<"m", "a", "k", "e">>,
    <<"m", "a", "d", "e">>, <<"l", "e", "t">>, <<"u", "s">>, <<"m", "e">>,
    <<"h", "i", "m">>, <<"t", "h", "e", "m">>,
    <<"m", "y", "s", "e", "l", "f">>,
    <<"y", "o", "u", "r", "s", "e", "l", "f">>,
    <<"h", "i", "m", "s", "e", "l", "f">>,
    <<"h", "e", "r", "s", "e", "l", "f">>, <<"i", "t", "s", "e", "l", "f">>,
    <<"o", "u", "r", "s", "e", "l", "v", "e", "s">>,
    <<"t", "h", "e", "m", "s", "e", "l", "v", "e", "s">>,
    <<"m", "u", "c", "h">>, <<"m", "a", "n", "y">>, <<"l", "i", "k", "e">>,
    <<"w", "a", "n", "t">>, <<"p", "l", "e", "a", "s", "e">>,
    <<"t", "h", "a", "n", "k", "s">>, <<"t", "h", "a", "n", "k">>,
    <<"h", "i">>, <<"h", "e", "l", "l", "o">>, <<"h", "e", "y">> }

\* A variant of isSignificant that keeps every non-empty word.
isNonEmpty(word) == Len(word) > 0

isSignificant(word) == Len(word) > 1 /\ word \notin STOPWORDS

\* A variant of tokenize that filters the words before it lowercases them.
keepAlphanumericAnyCase(text) ==
    [i \in 1 .. Len(text) |->
        IF text[i] \in Range(LowerCase) \cup Range(UpperCase) \cup Digit
                       \cup WhiteSpace
        THEN text[i] ELSE " "]

lowerEach(words) == [k \in DOMAIN words |-> toLowerCase(words[k])]

tokenizeLowerLast(text) ==
    IF text = <<>> THEN <<>>
    ELSE lowerEach(SelectSeq(splitWhiteSpace(keepAlphanumericAnyCase(text)),
                             isSignificant))

\* tokenize(text): lowercase words without punctuation and stopwords
tokenize(text) ==
    IF text = <<>> THEN <<>>
    ELSE SelectSeq(splitWhiteSpace(replaceNonAlphanumeric(toLowerCase(text))),
                   isSignificant)

(***************************************************************************)
(* A JavaScript Map is the sequence of its entries [key, val] in insertion *)
(* order, with pairwise different keys.                                    *)
(***************************************************************************)
MapHas(map, key) == \E i \in DOMAIN map : map[i].key = key

MapGet(map, key) == map[CHOOSE i \in DOMAIN map : map[i].key = key].val

\* A variant of MapGetOrZero that counts a missing key as 1.
MapGetOrOne(map, key) == IF MapHas(map, key) THEN MapGet(map, key) ELSE 1

\* map.get(key) || 0
MapGetOrZero(map, key) == IF MapHas(map, key) THEN MapGet(map, key) ELSE 0

\* map.set(key, val): an existing key keeps its place
MapSet(map, key, val) ==
    IF MapHas(map, key)
    THEN [i \in DOMAIN map |->
             IF map[i].key = key THEN [key |-> key, val |-> val] ELSE map[i]]
    ELSE Append(map, [key |-> key, val |-> val])

\* for (const k of keys) map.set(k, (map.get(k) || 0) + 1), from keys[i] on
RECURSIVE MapCount(_, _, _)
MapCount(map, keys, i) ==
    IF i > Len(keys) THEN map
    ELSE MapCount(MapSet(map, keys[i], MapGetOrZero(map, keys[i]) + 1),
                  keys, i + 1)

\* A variant of termFrequency that records each token with the count 1.
termFrequencyPresence(tokens) ==
    LET counted == MapCount(<<>>, tokens, 1)
    IN  [i \in DOMAIN counted |-> [key |-> counted[i].key, val |-> 1]]

\* termFrequency(tokens): a Map from token to its number of occurrences
termFrequency(tokens) == MapCount(<<>>, tokens, 1)

\* the sum of f[1] .. f[n]
RECURSIVE SumTo(_, _)
SumTo(f, n) == IF n = 0 THEN 0 ELSE SumTo(f, n - 1) + f[n]

(***************************************************************************)
(* Math.sqrt of the integers the model meets is tabulated; a magnitude is  *)
(* the root of a sum of squares of counts, so its argument is an integer.  *)
(***************************************************************************)
SqrtTableSize == 30

\* The function f with all its values computed
Tabulated(f) == f @@ <<>>

SqrtTable == Tabulated([n \in 1 .. SqrtTableSize |-> FSqrtOf(n)])

MathSqrt(n) ==
    IF n = 0 THEN FZero
    ELSE IF n \in DOMAIN SqrtTable THEN SqrtTable[n]
    ELSE FSqrtOf(n)

\* A variant of cosineDivide that normalises by the first magnitude squared,
\* which is not symmetric in the two Maps.
cosineDivideByFirst(dotProduct, magnitude1, magnitude2) ==
    IF magnitude1 = FZero \/ magnitude2 = FZero THEN FZero
    ELSE FDiv(FFromInt(dotProduct), FMul(magnitude1, magnitude1))

\* The sums are sums of integers far below 2^53 and so exact; the square
\* roots, the product and the quotient round.
cosineDivide(dotProduct, magnitude1, magnitude2) ==
    IF magnitude1 = FZero \/ magnitude2 = FZero THEN FZero
    ELSE FDiv(FFromInt(dotProduct), FMul(magnitude1, magnitude2))

\* cosineSimilarity(tf1, tf2) of two term-frequency Maps
cosineSimilarity(tf1, tf2) ==
    IF Len(tf1) = 0 \/ Len(tf2) = 0 THEN FZero
    ELSE cosineDivide(
            SumTo([i \in DOMAIN tf1 |->
                      tf1[i].val * MapGetOrZero(tf2, tf1[i].key)], Len(tf1)),
            MathSqrt(SumTo([i \in DOMAIN tf1 |-> tf1[i].val * tf1[i].val],
                           Len(tf1))),
            MathSqrt(SumTo([i \in DOMAIN tf2 |-> tf2[i].val * tf2[i].val],
                           Len(tf2))))

textSimilarity(text1, text2) ==
    cosineSimilarity(termFrequency(tokenize(text1)),
                     termFrequency(tokenize(text2)))

\* linearDescription is optional; an empty description is falsy as well
compareSlackToLinear(slackText, linearTitle, linearDescription) ==
    textSimilarity(slackText,
                   IF linearDescription # <<>> /\ linearDescription[1] # <<>>
                   THEN linearTitle \o << " " >> \o linearDescription[1]
                   ELSE linearTitle)

\* The calls of tokenize that textSimilarity makes, in order
textSimilarityTokenized(text1, text2) ==
    << [parameter |-> "text1", text |-> text1],
       [parameter |-> "text2", text |-> text2] >>

\* The calls of tokenize that compareSlackToLinear makes, in order
compareSlackToLinearTokenized(slackText, linearTitle, linearDescription) ==
    textSimilarityTokenized(slackText,
        IF linearDescription # <<>> /\ linearDescription[1] # <<>>
        THEN linearTitle \o << " " >> \o linearDescription[1]
        ELSE linearTitle)

\* The calls of tokenize that findSimilarIssues makes, in order: those of
\* compareSlackToLinear for each issue of linearIssues.map
RECURSIVE findSimilarIssuesTokenizedFrom(_, _, _)
findSimilarIssuesTokenizedFrom(slackText, linearIssues, i) ==
    IF i > Len(linearIssues) THEN <<>>
    ELSE compareSlackToLinearTokenized(slackText, linearIssues[i].title,
                                       linearIssues[i].description)
         \o findSimilarIssuesTokenizedFrom(slackText, linearIssues, i + 1)

findSimilarIssuesTokenized(slackText, linearIssues) ==
    findSimilarIssuesTokenizedFrom(slackText, linearIssues, 1)

(***************************************************************************)
(* Array.prototype.sort(compareFn) is stable (ECMAScript 2019).  The       *)
(* comparator is given as before[i][j], which says compareFn(array[i],     *)
(* array[j]) < 0; the comparators of this program are differences of       *)
(* finite numbers, so they are consistent.                                 *)
(***************************************************************************)
\* The positions sorted so far with position n put after its equals
SortInsert(order, n, before) ==
    LET later == { k \in DOMAIN order : before[n][order[k]] }
        at    == IF later = {} THEN Len(order) + 1
                 ELSE CHOOSE k \in later : \A l \in later : k <= l
    IN  SubSeq(order, 1, at - 1) \o << n >> \o SubSeq(order, at, Len(order))

SortOrder(len, before) ==
    LET first[n \in 0 .. len] ==
            IF n = 0 THEN <<>> ELSE SortInsert(first[n - 1], n, before)
    IN  first[len]

Permuted(array, order) == [k \in DOMAIN order |-> array[order[k]]]

ArraySort(array, before) == Permuted(array, SortOrder(Len(array), before))

\* A variant comparator that also puts b after a when the scores are equal.
ScoreAtLeast(a, b) == FLeq(b.score, a.score)

\* (a, b) => b.score - a.score
ScoreDescending(a, b) == FLess(b.score, a.score)

\* results.sort((a, b) => b.score - a.score)
sortByScore(results) ==
    ArraySort(results, [i \in DOMAIN results |-> [j \in DOMAIN results |->
                           ScoreDescending(results[i], results[j])]])

(***************************************************************************)
(* route.ts: the pair finder.  A pair refers to its two issue objects; the *)
(* references are the issues' positions in the array the finder was given. *)
(***************************************************************************)
\* (a, b) => b[1] - a[1] on Map entries
FrequencyDescending(a, b) == a.val > b.val

\* A variant of sortByFrequency that leaves the entries in insertion order.
keepInsertionOrder(entries) == entries

\* entries.sort((a, b) => b[1] - a[1])
sortByFrequency(entries) ==
    ArraySort(entries, [i \in DOMAIN entries |-> [j \in DOMAIN entries |->
                           FrequencyDescending(entries[i], entries[j])]])

\* getTopTokens(text, n): the set is kept in its insertion order
getTopTokens(text, n) ==
    LET sorted == sortByFrequency(termFrequency(tokenize(text)))
    IN  [i \in 1 .. (IF Len(sorted) < n THEN Len(sorted) ELSE n) |->
            sorted[i].key]

\* `${issue.title} ${issue.description || ""}`
issueText(issue) ==
    issue.title \o << " " >>
    \o (IF issue.description = <<>> THEN <<>> ELSE issue.description[1])

calculateIssueSimilarity(issueA, issueB) ==
    cosineSimilarity(termFrequency(tokenize(issueText(issueA))),
                     termFrequency(tokenize(issueText(issueB))))

(***************************************************************************)
(* The texts and issues the model draws its inputs from.                   *)
(***************************************************************************)
TitleLoginCrash ==
    << "L", "o", "g", "i", "n", " ", "c", "r", "a", "s", "h" >>

TitleCrash ==
    << "C", "r", "a", "s", "h", "!" >>

DescTheCrash ==
    << "T", "h", "e", " ", "c", "r", "a", "s", "h", "." >>

TitleDarkMode ==
    << "A", "d", "d", " ", "d", "a", "r", "k", " ", "m", "o", "d", "e" >>

DescLong ==
    << "a", "p", "i", " ", "a", "p", "i", " ", "s", "d", "k", " ", "s", "d",
       "k", " ", "c", "l", "i", " ", "c", "l", "i", " ", "i", "o", "s", " ",
       "i", "o", "s", " ", "w", "e", "b", " ", "w", "e", "b", " ", "a", "p",
       "p", " ", "a", "p", "p", " ", "s", "s", "o", " ", "s", "s", "o", " ",
       "c", "s", "v", " ", "c", "s", "v", " ", "p", "d", "f", " ", "p", "d",
       "f", " ", "p", "h", "p", " ", "p", "h", "p" >>

TitleDarkModeShort ==
    << "D", "a", "r", "k", " ", "m", "o", "d", "e" >>

DescSettingsToggle ==
    << "S", "e", "t", "t", "i", "n", "g", "s", " ", "t", "o", "g", "g", "l",
       "e" >>

TitleDashboard ==
    << "D", "a", "s", "h", "b", "o", "a", "r", "d", " ", "f", "a", "i", "l",
       "s", " ", "t", "o", " ", "r", "e", "n", "d", "e", "r", " ", "c", "h",
       "a", "r", "t", "s" >>

QueryDashboard ==
    << "d", "a", "s", "h", "b", "o", "a", "r", "d", " ", "c", "h", "a", "r",
       "t", "s", " ", "n", "o", "t", " ", "l", "o", "a", "d", "i", "n", "g" >>

QueryDarkMode ==
    << "A", "d", "d", " ", "d", "a", "r", "k", " ", "m", "o", "d", "e", "!" >>

QueryLoginCrash ==
    << "l", "o", "g", "i", "n", " ", "c", "r", "a", "s", "h" >>

TitleBlank == << "?" >>

NoDescription == <<>>

IssuePool ==
    << [id |-> "FEED-1", title |-> TitleLoginCrash, description |-> NoDescription],
       [id |-> "FEED-2", title |-> TitleLoginCrash, description |-> << <<>> >>],
       [id |-> "FEED-3", title |-> TitleCrash, description |-> NoDescription],
       [id |-> "FEED-4", title |-> TitleCrash, description |-> << DescTheCrash >>],
       [id |-> "FEED-5", title |-> TitleDarkMode, description |-> NoDescription],
       [id |-> "FEED-6", title |-> TitleLoginCrash, description |-> << DescLong >>],
       [id |-> "FEED-7", title |-> TitleDarkModeShort,
        description |-> << DescSettingsToggle >>],
       [id |-> "FEED-8", title |-> TitleDashboard, description |-> NoDescription],
       [id |-> "FEED-9", title |-> TitleBlank, description |-> NoDescription] >>

PairIssues == { IssuePool[k] : k \in 1 .. 7 }

\* An issue without a significant token, to fill long arrays with
BlankIssue == IssuePool[9]

\* The issues whose similarities and signatures are tabulated
TableIssues == PairIssues \cup { BlankIssue }

RankIssues == { IssuePool[k] : k \in { 1, 3, 4, 5, 8 } }

QueryPool == { <<>>, QueryDashboard, QueryDarkMode, QueryLoginCrash }

\* parseFloat("0.5"), parseFloat("0.9"), 0.01: the doubles nearest to the
\* decimals, which are the rounded quotients
Half == FDiv(FFromInt(1), FFromInt(2))
NineTenths == FDiv(FFromInt(9), FFromInt(10))
Hundredth == FDiv(FFromInt(1), FFromInt(100))

ThresholdPool == { FZero, Half, NineTenths }

MinScorePool == { FZero, Hundredth, Half }

(***************************************************************************)
(* The functions are pure; their values on the pools are computed once.    *)
(***************************************************************************)
IssueSimilarityTable ==
    Tabulated([p \in TableIssues \X TableIssues |->
                  calculateIssueSimilarity(p[1], p[2])])

issueSimilarity(issueA, issueB) ==
    IF <<issueA, issueB>> \in DOMAIN IssueSimilarityTable
    THEN IssueSimilarityTable[<<issueA, issueB>>]
    ELSE calculateIssueSimilarity(issueA, issueB)

SignatureSize == 10

TopTokensTable ==
    Tabulated([issue \in TableIssues |->
                  getTopTokens(issueText(issue), SignatureSize)])

issueTopTokens(issue) ==
    IF issue \in DOMAIN TopTokensTable THEN TopTokensTable[issue]
    ELSE getTopTokens(issueText(issue), SignatureSize)

SlackScoreTable ==
    Tabulated([p \in QueryPool \X RankIssues |->
                  compareSlackToLinear(p[1], p[2].title, p[2].description)])

slackScore(slackText, issue) ==
    IF <<slackText, issue>> \in DOMAIN SlackScoreTable
    THEN SlackScoreTable[<<slackText, issue>>]
    ELSE compareSlackToLinear(slackText, issue.title, issue.description)

\* One element of the result: { issueA: issues[i], issueB: issues[j],
\* similarity }.  Positions count from 1 here, from 0 in the source.
similarityPair(issues, i, j) ==
    [issueA |-> i, issueB |-> j,
     similarity |-> issueSimilarity(issues[i], issues[j])]

\* A variant of pushIfSimilar that keeps every pair.
pushAlways(pairs, pair, threshold) == Append(pairs, pair)

\* A variant of pushIfSimilar that keeps a pair only above the threshold.
pushIfAbove(pairs, pair, threshold) ==
    IF FLess(threshold, pair.similarity) THEN Append(pairs, pair) ELSE pairs

\* if (similarity >= threshold) pairs.push(...)
pushIfSimilar(pairs, pair, threshold) ==
    IF FLeq(threshold, pair.similarity) THEN Append(pairs, pair) ELSE pairs

\* The loops run over up to several hundred issues, so each is given as the
\* pairs its iterations lo .. hi push, in order, split in halves.
\* for (let j = lo; j <= hi; j++) of the inner loop at i
RECURSIVE bruteForceInner(_, _, _, _, _)
bruteForceInner(issues, threshold, i, lo, hi) ==
    IF lo > hi THEN <<>>
    ELSE IF lo = hi
         THEN pushIfSimilar(<<>>, similarityPair(issues, i, lo), threshold)
         ELSE bruteForceInner(issues, threshold, i, lo, (lo + hi) \div 2)
              \o bruteForceInner(issues, threshold, i,
                                 (lo + hi) \div 2 + 1, hi)

\* for (let i = lo; i <= hi; i++) of the outer loop; j starts at i + 1
RECURSIVE bruteForceOuter(_, _, _, _)
bruteForceOuter(issues, threshold, lo, hi) ==
    IF lo > hi THEN <<>>
    ELSE IF lo = hi
         THEN bruteForceInner(issues, threshold, lo, lo + 1, Len(issues))
         ELSE bruteForceOuter(issues, threshold, lo, (lo + hi) \div 2)
              \o bruteForceOuter(issues, threshold, (lo + hi) \div 2 + 1, hi)

bruteForceComparison(issues, threshold) ==
    bruteForceOuter(issues, threshold, 1, Len(issues))

\* issueTokens[i]: the signature of issues[i]
signatures(issues) == [i \in DOMAIN issues |-> issueTopTokens(issues[i])]

\* tokenIndex.get(token): the positions whose signature holds the token, in
\* the order they were added, which is ascending
issuesWithToken(issueTokens, token) ==
    SelectSeq([i \in DOMAIN issueTokens |-> i],
              LAMBDA i : token \in Range(issueTokens[i]))

\* A variant of candidateHits that takes every other position, not only the
\* later ones.
RECURSIVE candidateHitsAnyOther(_, _, _)
candidateHitsAnyOther(issueTokens, i, t) ==
    IF t > Len(issueTokens[i]) THEN <<>>
    ELSE SelectSeq(issuesWithToken(issueTokens, issueTokens[i][t]),
                   LAMBDA j : j # i)
         \o candidateHitsAnyOther(issueTokens, i, t + 1)

\* The keys the candidates Map is set with, in order: for each token of
\* issueTokens[i], each j > i of the token's positions
RECURSIVE candidateHits(_, _, _)
candidateHits(issueTokens, i, t) ==
    IF t > Len(issueTokens[i]) THEN <<>>
    ELSE SelectSeq(issuesWithToken(issueTokens, issueTokens[i][t]),
                   LAMBDA j : j > i)
         \o candidateHits(issueTokens, i, t + 1)

\* A variant of candidatesOf that sets the count of a candidate to 1 each time.
candidatesOfOnce(issueTokens, i) ==
    LET counted == MapCount(<<>>, candidateHits(issueTokens, i, 1), 1)
    IN  [k \in DOMAIN counted |-> [key |-> counted[k].key, val |-> 1]]

\* candidates: position -> shared token count, in insertion order
candidatesOf(issueTokens, i) == MapCount(<<>>, candidateHits(issueTokens, i, 1), 1)

MinSharedTokens == 2

\* A variant of compareCandidate that pushes the pair whatever its similarity.
compareCandidateUnfiltered(issues, threshold, acc, i, entry) ==
    IF entry.val >= MinSharedTokens /\ << i, entry.key >> \notin acc.seen
    THEN [seen |-> acc.seen \cup { << i, entry.key >> },
          pairs |-> Append(acc.pairs, similarityPair(issues, i, entry.key))]
    ELSE acc

\* A variant of compareCandidate that asks for more than MinSharedTokens.
compareCandidateAboveGate(issues, threshold, acc, i, entry) ==
    IF entry.val > MinSharedTokens /\ << i, entry.key >> \notin acc.seen
    THEN [seen |-> acc.seen \cup { << i, entry.key >> },
          pairs |-> pushIfSimilar(acc.pairs,
                                  similarityPair(issues, i, entry.key),
                                  threshold)]
    ELSE acc

\* The body of the loop over candidates, on acc = [pairs, seen].  pairKey is
\* `${i}-${j}`, which is one-to-one on pairs of positions.
compareCandidate(issues, threshold, acc, i, entry) ==
    IF entry.val >= MinSharedTokens /\ << i, entry.key >> \notin acc.seen
    THEN [seen |-> acc.seen \cup { << i, entry.key >> },
          pairs |-> pushIfSimilar(acc.pairs,
                                  similarityPair(issues, i, entry.key),
                                  threshold)]
    ELSE acc

RECURSIVE compareCandidates(_, _, _, _, _, _)
compareCandidates(issues, threshold, acc, i, candidates, k) ==
    IF k > Len(candidates) THEN acc
    ELSE compareCandidates(issues, threshold,
             compareCandidate(issues, threshold, acc, i, candidates[k]),
             i, candidates, k + 1)

\* The pairs the iteration at i pushes.  The keys that earlier iterations
\* added to seen start with another i, so the iteration meets seen as if it
\* were empty at its start.
bucketedRow(issues, threshold, issueTokens, i) ==
    compareCandidates(issues, threshold, [pairs |-> <<>>, seen |-> {}], i,
                      candidatesOf(issueTokens, i), 1).pairs

\* for (let i = lo; i <= hi; i++) of the second loop
RECURSIVE bucketedRows(_, _, _, _, _)
bucketedRows(issues, threshold, issueTokens, lo, hi) ==
    IF lo > hi THEN <<>>
    ELSE IF lo = hi THEN bucketedRow(issues, threshold, issueTokens, lo)
    ELSE bucketedRows(issues, threshold, issueTokens, lo, (lo + hi) \div 2)
         \o bucketedRows(issues, threshold, issueTokens,
                         (lo + hi) \div 2 + 1, hi)

bucketedComparison(issues, threshold) ==
    bucketedRows(issues, threshold, signatures(issues), 1, Len(issues))

\* The pairs of positions calculateIssueSimilarity is called with by
\* bucketedComparison: those that the iteration at i adds to seen
bucketedScored(issues, threshold) ==
    UNION { compareCandidates(issues, threshold,
                              [pairs |-> <<>>, seen |-> {}], i,
                              candidatesOf(signatures(issues), i), 1).seen :
            i \in DOMAIN issues }

\* A variant of findSimilarIssues that keeps only scores above minScore.
findSimilarIssuesAbove(slackText, linearIssues, minScore) ==
    sortByScore(
        SelectSeq([i \in DOMAIN linearIssues |->
                      [issue |-> i,
                       score |-> slackScore(slackText, linearIssues[i])]],
                  LAMBDA r : FLess(minScore, r.score)))

\* findSimilarIssues(slackText, linearIssues, minScore).  A result refers to
\* its issue object; the reference is the issue's position in linearIssues.
findSimilarIssues(slackText, linearIssues, minScore) ==
    sortByScore(
        SelectSeq([i \in DOMAIN linearIssues |->
                      [issue |-> i,
                       score |-> slackScore(slackText, linearIssues[i])]],
                  LAMBDA r : FLeq(minScore, r.score)))


(***************************************************************************)
(* The state.  Each specification below applies one group of functions to  *)
(* inputs its Init draws; the variables of the other groups stay idle.     *)
(***************************************************************************)
VARIABLES
    vecA, vecB,             \* two term-frequency Maps
    scoreAB, scoreBA,       \* cosineSimilarity(vecA, vecB) and (vecB, vecA)
    rankQuery,              \* findSimilarIssues: slackText
    rankCandidates,         \*                    linearIssues
    rankMinScore,           \*                    minScore
    ranked,                 \*                    the returned array
    tokenizedTexts,         \*                    its calls of tokenize
    corpus,                 \* the pair finder: issues
    pairThreshold,          \*                  threshold
    exactPairs,             \* what bruteForceComparison returned
    approxPairs,            \* what bucketedComparison returned
    scoredPairs,            \* the pairs bucketedComparison has scored
    sampleText,             \* a text given to tokenize and the text functions
    sampleTokens,           \* tokenize(sampleText)
    sampleAgain,            \* tokenize of sampleTokens joined by spaces
    partnerTitle,           \* the text or title sampleText is compared with
    partnerDescription,     \* the optional description that goes with it
    textScore,              \* textSimilarity(sampleText, partnerTitle)
    slackScoreOut,          \* compareSlackToLinear(sampleText, partner...)
    tokenList,              \* termFrequency: tokens
    tokenShuffle,           \* a rearrangement of tokenList
    tokenCounts,            \* termFrequency(tokenList)
    shuffleCounts,          \* termFrequency(tokenShuffle)
    reqThreshold,           \* POST: the threshold query parameter, optional
    reqBody,                \*       the request body
    response,               \*       the response, once sent
    postCalls,              \*       the strategies POST has called
    done                    \* the calls that have returned

\* ---- application state: variables ----
VARIABLES
    objects,                \* the arrays and Maps in memory, by reference
    callerObjects,          \* the objects as the caller made them
    callerText,             \* the text the caller passes
    lastResult,             \* what the last call returned
    callLog,                \* the calls made so far, in order
    shownMessage,           \* the current message of the review page, if any
    storedIssues,           \* the Linear issues of the store
    suggestions,            \* the suggestions shown
    signText,               \* the text given to getTopTokens
    signature,              \* the Set getTopTokens returned, in insertion order
    localStorage,           \* localStorage.getItem(STORAGE_KEY): absent or a text
    appState,               \* state of the last render, and whether it is defaultState itself
    isHydrated,             \* isHydrated of the last render
    queuedState,            \* the state the queued setState calls lead to, if any
    queuedHydrated,         \* the value of a queued setIsHydrated call, if any
    effectsDue,             \* the effects of the last render that have not run yet
    earlierSession,         \* localStorage as the page found it
    lastCall,               \* the last call of a function of the store
    unsaved,                \* the state has changed and has not been saved since
    reviewStore,            \* the store the page reads
    currentIndex,           \* currentIndex
    filterMode,             \* filterMode
    lastHandler,            \* the last handler called and currentIndex before it
    allMessages,            \* allMessages
    cursor,                 \* cursor, if any
    pagesFetched,           \* the number of responses received
    fetchStatus,            \* fetching, returned or thrown
    exportedIssues,         \* the issues given to issuesToCSV
    csvFile,                \* the CSV text that issuesToCSV returned
    importedIssues          \* what parseLinearCSV returned for the CSV text

frameVars == << objects, callerObjects, callerText, lastResult, callLog >>

suggestVars == << shownMessage, storedIssues, suggestions >>

signatureVars == << signText, signature >>

providerVars == << localStorage, appState, isHydrated, queuedState, queuedHydrated, effectsDue, earlierSession, lastCall, unsaved >>

reviewVars == << reviewStore, currentIndex, filterMode, lastHandler >>

fetchVars == << allMessages, cursor, pagesFetched, fetchStatus >>

csvVars == << exportedIssues, csvFile, importedIssues >>

appVars == << frameVars, suggestVars, signatureVars, providerVars, reviewVars, fetchVars, csvVars >>

IdleFrame ==
    /\ objects = <<>>
    /\ callerObjects = <<>>
    /\ callerText = <<>>
    /\ lastResult = <<>>
    /\ callLog = <<>>

IdleSuggest ==
    /\ shownMessage = <<>>
    /\ storedIssues = <<>>
    /\ suggestions = <<>>

IdleSignature ==
    /\ signText = <<>>
    /\ signature = <<>>

IdleProvider ==
    /\ localStorage = <<>>
    /\ appState = <<>>
    /\ isHydrated = FALSE
    /\ queuedState = <<>>
    /\ queuedHydrated = <<>>
    /\ effectsDue = <<>>
    /\ earlierSession = <<>>
    /\ lastCall = <<>>
    /\ unsaved = FALSE

IdleReview ==
    /\ reviewStore = <<>>
    /\ currentIndex = 0
    /\ filterMode = ""
    /\ lastHandler = <<>>

IdleFetch ==
    /\ allMessages = <<>>
    /\ cursor = <<>>
    /\ pagesFetched = 0
    /\ fetchStatus = ""

IdleCsv ==
    /\ exportedIssues = <<>>
    /\ csvFile = <<>>
    /\ importedIssues = <<>>

IdleApp ==
    /\ IdleFrame
    /\ IdleSuggest
    /\ IdleSignature
    /\ IdleProvider
    /\ IdleReview
    /\ IdleFetch
    /\ IdleCsv

\* ---- application state: variables end ----

cosineVars == << vecA, vecB, scoreAB, scoreBA >>

rankVars == << rankQuery, rankCandidates, rankMinScore, ranked,
               tokenizedTexts >>

pairVars == << corpus, pairThreshold, exactPairs, approxPairs, scoredPairs >>

textVars == << sampleText, sampleTokens, sampleAgain, partnerTitle,
               partnerDescription, textScore, slackScoreOut >>

termVars == << tokenList, tokenShuffle, tokenCounts, shuffleCounts >>

postVars == << reqThreshold, reqBody, response, postCalls >>

vars == << cosineVars, rankVars, pairVars, textVars, termVars, postVars,
           appVars, done >>

IdleCosine == vecA = <<>> /\ vecB = <<>> /\ scoreAB = FZero /\ scoreBA = FZero

IdleRank ==
    /\ rankQuery = <<>>
    /\ rankCandidates = <<>>
    /\ rankMinScore = FZero
    /\ ranked = <<>>
    /\ tokenizedTexts = <<>>

IdlePairs ==
    /\ corpus = <<>>
    /\ pairThreshold = FZero
    /\ exactPairs = <<>>
    /\ approxPairs = <<>>
    /\ scoredPairs = {}

IdleText ==
    /\ sampleText = <<>>
    /\ sampleTokens = <<>>
    /\ sampleAgain = <<>>
    /\ partnerTitle = <<>>
    /\ partnerDescription = <<>>
    /\ textScore = FZero
    /\ slackScoreOut = FZero

IdleTerms ==
    /\ tokenList = <<>>
    /\ tokenShuffle = <<>>
    /\ tokenCounts = <<>>
    /\ shuffleCounts = <<>>

IdlePost ==
    /\ reqThreshold = <<>>
    /\ reqBody = <<>>
    /\ response = <<>>
    /\ postCalls = <<>>

\* ---- application state: frames ----
coreVars == << cosineVars, rankVars, pairVars, textVars, termVars, postVars >>

IdleCore ==
    /\ IdleCosine
    /\ IdleRank
    /\ IdlePairs
    /\ IdleText
    /\ IdleTerms
    /\ IdlePost

\* What the actions on the objects of a caller leave alone
besidesFrame == << coreVars, suggestVars, signatureVars, providerVars, reviewVars, fetchVars, csvVars >>

IdleBesidesFrame ==
    /\ IdleCore
    /\ IdleSuggest
    /\ IdleSignature
    /\ IdleProvider
    /\ IdleReview
    /\ IdleFetch
    /\ IdleCsv

\* What the actions on the suggestions of the review page leave alone
besidesSuggest == << coreVars, frameVars, signatureVars, providerVars, reviewVars, fetchVars, csvVars >>

IdleBesidesSuggest ==
    /\ IdleCore
    /\ IdleFrame
    /\ IdleSignature
    /\ IdleProvider
    /\ IdleReview
    /\ IdleFetch
    /\ IdleCsv

\* What the actions on the signature of a text leave alone
besidesSignature == << coreVars, frameVars, suggestVars, providerVars, reviewVars, fetchVars, csvVars >>

IdleBesidesSignature ==
    /\ IdleCore
    /\ IdleFrame
    /\ IdleSuggest
    /\ IdleProvider
    /\ IdleReview
    /\ IdleFetch
    /\ IdleCsv

\* What the actions on AppProvider leave alone
besidesProvider == << coreVars, frameVars, suggestVars, signatureVars, reviewVars, fetchVars, csvVars >>

IdleBesidesProvider ==
    /\ IdleCore
    /\ IdleFrame
    /\ IdleSuggest
    /\ IdleSignature
    /\ IdleReview
    /\ IdleFetch
    /\ IdleCsv

\* What the actions on ReviewPage leave alone
besidesReview == << coreVars, frameVars, suggestVars, signatureVars, providerVars, fetchVars, csvVars >>

IdleBesidesReview ==
    /\ IdleCore
    /\ IdleFrame
    /\ IdleSuggest
    /\ IdleSignature
    /\ IdleProvider
    /\ IdleFetch
    /\ IdleCsv

\* What the actions on fetchChannelMessages leave alone
besidesFetch == << coreVars, frameVars, suggestVars, signatureVars, providerVars, reviewVars, csvVars >>

IdleBesidesFetch ==
    /\ IdleCore
    /\ IdleFrame
    /\ IdleSuggest
    /\ IdleSignature
    /\ IdleProvider
    /\ IdleReview
    /\ IdleCsv

\* What the actions on the CSV export and import leave alone
besidesCsv == << coreVars, frameVars, suggestVars, signatureVars, providerVars, reviewVars, fetchVars >>

IdleBesidesCsv ==
    /\ IdleCore
    /\ IdleFrame
    /\ IdleSuggest
    /\ IdleSignature
    /\ IdleProvider
    /\ IdleReview
    /\ IdleFetch

\* ---- application state: frames end ----

\* The sequences over a set of at most a given length
SeqsUpTo(set, len) == UNION { [1 .. k -> set] : k \in 0 .. len }

(***************************************************************************)
(* cosineSimilarity on term-frequency Maps over two terms.                 *)
(***************************************************************************)
MaxCount == 3

TermLogin == << "l", "o", "g", "i", "n" >>

TermCrash == << "c", "r", "a", "s", "h" >>

\* The Map of the tokens: login, countLogin times, then crash, countCrash times
VectorOf(countLogin, countCrash) ==
    termFrequency([k \in 1 .. countLogin |-> TermLogin]
                  \o [k \in 1 .. countCrash |-> TermCrash])

Vectors ==
    { VectorOf(c[1], c[2]) : c \in (0 .. MaxCount) \X (0 .. MaxCount) }

InitCosine ==
    /\ vecA \in Vectors
    /\ vecB \in Vectors
    /\ scoreAB = FZero
    /\ scoreBA = FZero
    /\ done = {}
    /\ IdleApp
    /\ IdleRank
    /\ IdlePairs
    /\ IdleText
    /\ IdleTerms
    /\ IdlePost

CosineAB ==
    /\ scoreAB' = cosineSimilarity(vecA, vecB)
    /\ done' = done \cup { "cosineAB" }
    /\ UNCHANGED appVars
    /\ UNCHANGED << vecA, vecB, scoreBA, rankVars, pairVars, textVars,
                    termVars, postVars >>

CosineBA ==
    /\ scoreBA' = cosineSimilarity(vecB, vecA)
    /\ done' = done \cup { "cosineBA" }
    /\ UNCHANGED appVars
    /\ UNCHANGED << vecA, vecB, scoreAB, rankVars, pairVars, textVars,
                    termVars, postVars >>

NextCosine == CosineAB \/ CosineBA

SpecCosine == InitCosine /\ [][NextCosine]_vars

\* C8: for two term-frequency Maps with positive integer counts,
\* cosineSimilarity returns a value in [0, 1].
CosineInUnitInterval ==
    "cosineAB" \in done => FLeq(FZero, scoreAB) /\ FLeq(scoreAB, FOne)

\* C9: cosineSimilarity(X, X) is exactly 1.0 for every non-empty Map X.
CosineOfSelfIsOne ==
    "cosineAB" \in done /\ vecA = vecB /\ vecA # <<>> => scoreAB = FOne

\* C10: cosineSimilarity is symmetric: cosineSimilarity(A, B) =
\* cosineSimilarity(B, A) for all term-frequency Maps A and B.
CosineSymmetric ==
    { "cosineAB", "cosineBA" } \subseteq done => scoreAB = scoreBA

\* Both orders computed on different Maps that share a term and are not
\* parallel: the score is neither 0 nor 1.
CosineSymmetricWitness ==
    /\ { "cosineAB", "cosineBA" } \subseteq done
    /\ vecA # vecB
    /\ Len(vecA) = 2
    /\ Len(vecB) = 1
    /\ FLess(FZero, scoreAB)
    /\ FLess(scoreAB, FOne)

(***************************************************************************)
(* findSimilarIssues on queries and candidate lists from the pools.        *)
(* minScore is optional: <<>> when the caller leaves it out.               *)
(***************************************************************************)
MaxCandidates == 3

\* minScore: number = 0
minScoreOrDefault(minScore) == IF minScore = <<>> THEN FZero ELSE minScore[1]

InitRank ==
    /\ rankQuery \in QueryPool
    /\ rankCandidates \in SeqsUpTo(RankIssues, MaxCandidates)
    /\ rankMinScore \in { <<>> } \cup { << v >> : v \in MinScorePool }
    /\ ranked = <<>>
    /\ tokenizedTexts = <<>>
    /\ done = {}
    /\ IdleApp
    /\ IdleCosine
    /\ IdlePairs
    /\ IdleText
    /\ IdleTerms
    /\ IdlePost

FindSimilar ==
    /\ ranked' = findSimilarIssues(rankQuery, rankCandidates,
                                   minScoreOrDefault(rankMinScore))
    /\ tokenizedTexts' = findSimilarIssuesTokenized(rankQuery, rankCandidates)
    /\ done' = done \cup { "findSimilarIssues" }
    /\ UNCHANGED appVars
    /\ UNCHANGED << rankQuery, rankCandidates, rankMinScore, cosineVars,
                    pairVars, textVars, termVars, postVars >>

NextRank == FindSimilar

SpecRank == InitRank /\ [][NextRank]_vars

\* C5: every score in the list findSimilarIssues returns lies in [0, 1] and
\* the list is sorted non-increasing by score.
RankedInUnitIntervalAndSorted ==
    "findSimilarIssues" \in done =>
        /\ \A k \in DOMAIN ranked :
              FLeq(FZero, ranked[k].score) /\ FLeq(ranked[k].score, FOne)
        /\ \A k \in 1 .. Len(ranked) - 1 :
              FLeq(ranked[k + 1].score, ranked[k].score)

\* C6: ties are broken stably: two returned candidates with equal score
\* appear in the relative order of their positions in the input list.
RankedTiesStable ==
    "findSimilarIssues" \in done =>
        \A k, l \in DOMAIN ranked :
            k < l /\ ranked[k].score = ranked[l].score =>
                ranked[k].issue < ranked[l].issue

\* A returned tie at a positive score between two different issues, below a
\* candidate that scores higher although it comes later in the input.
RankedTiesStableWitness ==
    /\ "findSimilarIssues" \in done
    /\ Len(ranked) = 3
    /\ FLess(ranked[2].score, ranked[1].score)
    /\ ranked[2].score = ranked[3].score
    /\ FLess(FZero, ranked[2].score)
    /\ rankCandidates[ranked[2].issue] # rankCandidates[ranked[3].issue]
    /\ ranked[1].issue = 3

\* C7: findSimilarIssues returns exactly the candidates whose score is at
\* least minScore, each once; with the default minScore the result is as
\* long as the input and includes the candidates that score 0.
RankedExactlyAtLeastMinScore ==
    "findSimilarIssues" \in done =>
        /\ \A k \in DOMAIN ranked :
              /\ ranked[k].issue \in DOMAIN rankCandidates
              /\ ranked[k].score = SlackScoreTable[<< rankQuery,
                                     rankCandidates[ranked[k].issue] >>]
        /\ \A position \in DOMAIN rankCandidates :
              Cardinality({ k \in DOMAIN ranked : ranked[k].issue = position })
              = IF FLeq(minScoreOrDefault(rankMinScore),
                        SlackScoreTable[<< rankQuery, rankCandidates[position] >>])
                THEN 1 ELSE 0
        /\ rankMinScore = <<>> => Len(ranked) = Len(rankCandidates)

\* A call that drops a candidate below minScore and keeps another, and a
\* call with the default that returns a candidate scoring 0.
RankedExactlyWitness ==
    /\ "findSimilarIssues" \in done
    /\ \/ /\ rankMinScore # <<>>
          /\ ranked # <<>>
          /\ Len(ranked) < Len(rankCandidates)
       \/ /\ rankMinScore = <<>>
          /\ \E k \in DOMAIN ranked : ranked[k].score = FZero

\* The distinct terms of a query and of the text a candidate is compared by
QueryTermsTable == Tabulated([query \in QueryPool |-> Range(tokenize(query))])

CandidateTermsTable ==
    Tabulated([issue \in RankIssues |->
        Range(tokenize(IF issue.description # <<>> /\ issue.description[1] # <<>>
                       THEN issue.title \o << " " >> \o issue.description[1]
                       ELSE issue.title))])

\* The candidate at a position shares a term with the query
SharesTerm(position) ==
    QueryTermsTable[rankQuery] \cap CandidateTermsTable[rankCandidates[position]]
    # {}

\* C11: the cosine similarity of the query's and a candidate's vectors is
\* exactly 0 when they share no term and above 0 when they share one; so
\* in the result of findSimilarIssues a candidate that shares a term with
\* the query comes before every candidate that shares none.
SharedTermScoresAboveDisjoint ==
    "findSimilarIssues" \in done =>
        /\ \A position \in DOMAIN rankCandidates :
              IF SharesTerm(position)
              THEN FLess(FZero, SlackScoreTable[<< rankQuery,
                                    rankCandidates[position] >>])
              ELSE SlackScoreTable[<< rankQuery, rankCandidates[position] >>]
                   = FZero
        /\ \A k \in DOMAIN ranked :
              IF SharesTerm(ranked[k].issue)
              THEN FLess(FZero, ranked[k].score)
              ELSE ranked[k].score = FZero
        /\ \A k, l \in DOMAIN ranked :
              SharesTerm(ranked[k].issue) /\ ~SharesTerm(ranked[l].issue)
                  => k < l

\* A returned candidate that shares a term stands before one that shares
\* none although it came later in the input.
SharedTermWitness ==
    /\ "findSimilarIssues" \in done
    /\ \E k, l \in DOMAIN ranked :
          /\ k < l
          /\ SharesTerm(ranked[k].issue)
          /\ ~SharesTerm(ranked[l].issue)
          /\ ranked[l].issue < ranked[k].issue

(***************************************************************************)
(* The two strategies of the pair finder on one list of issues from the    *)
(* pool.  An issue may occur twice in the list: the list is a request body *)
(* and nothing makes its ids unique.                                       *)
(***************************************************************************)
MaxIssues == 3

InitPairs ==
    /\ corpus \in SeqsUpTo(PairIssues, MaxIssues)
    /\ pairThreshold \in ThresholdPool
    /\ exactPairs = <<>>
    /\ approxPairs = <<>>
    /\ scoredPairs = {}
    /\ done = {}
    /\ IdleApp
    /\ IdleCosine
    /\ IdleRank
    /\ IdleText
    /\ IdleTerms
    /\ IdlePost

BruteForce ==
    /\ exactPairs' = bruteForceComparison(corpus, pairThreshold)
    /\ done' = done \cup { "bruteForceComparison" }
    /\ UNCHANGED appVars
    /\ UNCHANGED << corpus, pairThreshold, approxPairs, scoredPairs,
                    cosineVars, rankVars, textVars, termVars, postVars >>

Bucketed ==
    /\ approxPairs' = bucketedComparison(corpus, pairThreshold)
    /\ scoredPairs' = bucketedScored(corpus, pairThreshold)
    /\ done' = done \cup { "bucketedComparison" }
    /\ UNCHANGED appVars
    /\ UNCHANGED << corpus, pairThreshold, exactPairs, cosineVars, rankVars,
                    textVars, termVars, postVars >>

NextPairs == BruteForce \/ Bucketed

SpecPairs == InitPairs /\ [][NextPairs]_vars

\* The results that have been returned
ReturnedResults ==
    (IF "bruteForceComparison" \in done THEN { exactPairs } ELSE {})
    \cup (IF "bucketedComparison" \in done THEN { approxPairs } ELSE {})

\* The unordered pair of ids of a returned pair
IdsOf(pair) == { corpus[pair.issueA].id, corpus[pair.issueB].id }

\* The similarity of the comparable texts of the issues at two positions
SimilarityAt(i, j) == IssueSimilarityTable[<< corpus[i], corpus[j] >>]

\* C1 as stated: with either strategy no returned pair has idA = idB and no
\* unordered pair of ids is returned twice.
PairsNeverSameIdNorTwice ==
    \A pairs \in ReturnedResults :
        /\ \A k \in DOMAIN pairs :
              corpus[pairs[k].issueA].id # corpus[pairs[k].issueB].id
        /\ \A k, l \in DOMAIN pairs :
              k # l => IdsOf(pairs[k]) # IdsOf(pairs[l])

\* C1, amended: with either strategy a returned pair is of two positions
\* i < j of the list and no pair of positions is returned twice; when the
\* ids of the list are pairwise different, no returned pair has idA = idB
\* and no unordered pair of ids is returned twice.
PairsDistinctPositionsOnce ==
    \A pairs \in ReturnedResults :
        /\ \A k \in DOMAIN pairs :
              /\ pairs[k].issueA \in DOMAIN corpus
              /\ pairs[k].issueB \in DOMAIN corpus
              /\ pairs[k].issueA < pairs[k].issueB
        /\ \A k, l \in DOMAIN pairs :
              k # l => << pairs[k].issueA, pairs[k].issueB >>
                       # << pairs[l].issueA, pairs[l].issueB >>
        /\ (\A i, j \in DOMAIN corpus : i # j => corpus[i].id # corpus[j].id)
           => /\ \A k \in DOMAIN pairs :
                    corpus[pairs[k].issueA].id # corpus[pairs[k].issueB].id
              /\ \A k, l \in DOMAIN pairs :
                    k # l => IdsOf(pairs[k]) # IdsOf(pairs[l])

\* On a list of three issues with different ids bruteForceComparison has
\* returned at least two pairs and bucketedComparison at least one.
PairsDistinctWitness ==
    /\ done = { "bruteForceComparison", "bucketedComparison" }
    /\ Len(corpus) = 3
    /\ \A i, j \in DOMAIN corpus : i # j => corpus[i].id # corpus[j].id
    /\ Len(exactPairs) >= 2
    /\ Len(approxPairs) >= 1

\* C2: bruteForceComparison has no false negatives: for all positions i < j
\* whose similarity is at least the threshold the result holds the pair
\* (issues[i], issues[j]) with that similarity, and it holds no other pair.
BruteForceExact ==
    "bruteForceComparison" \in done =>
        /\ \A i, j \in DOMAIN corpus :
              i < j /\ FLeq(pairThreshold, SimilarityAt(i, j)) =>
                  \E k \in DOMAIN exactPairs :
                      exactPairs[k] = [issueA |-> i, issueB |-> j,
                                       similarity |-> SimilarityAt(i, j)]
        /\ \A k \in DOMAIN exactPairs :
              /\ exactPairs[k].issueA \in DOMAIN corpus
              /\ exactPairs[k].issueB \in DOMAIN corpus
              /\ exactPairs[k].issueA < exactPairs[k].issueB
              /\ exactPairs[k].similarity
                 = SimilarityAt(exactPairs[k].issueA, exactPairs[k].issueB)
              /\ FLeq(pairThreshold, exactPairs[k].similarity)

\* On three issues and a positive threshold, one pair is returned and
\* another falls below the threshold.
BruteForceExactWitness ==
    /\ "bruteForceComparison" \in done
    /\ Len(corpus) = 3
    /\ pairThreshold # FZero
    /\ Len(exactPairs) = 1
    /\ \E i, j \in DOMAIN corpus :
          /\ i < j
          /\ FLess(FZero, SimilarityAt(i, j))
          /\ FLess(SimilarityAt(i, j), pairThreshold)

\* C3: on the same list and threshold every pair bucketedComparison returns
\* is returned by bruteForceComparison with the same similarity.
BucketedSubsetOfBruteForce ==
    { "bruteForceComparison", "bucketedComparison" } \subseteq done =>
        \A k \in DOMAIN approxPairs :
            \E l \in DOMAIN exactPairs : exactPairs[l] = approxPairs[k]

\* Both have run, bucketedComparison returned a pair and missed another that
\* bruteForceComparison returned.
BucketedSubsetWitness ==
    /\ { "bruteForceComparison", "bucketedComparison" } \subseteq done
    /\ approxPairs # <<>>
    /\ Len(approxPairs) < Len(exactPairs)

\* C4 as stated: bucketedComparison returns every pair of issues with
\* identical titles whose similarity is at least the threshold.
BucketedFindsIdenticalTitles ==
    "bucketedComparison" \in done =>
        \A i, j \in DOMAIN corpus :
            /\ i < j
            /\ corpus[i].title = corpus[j].title
            /\ FLeq(pairThreshold, SimilarityAt(i, j))
            => \E k \in DOMAIN approxPairs :
                   approxPairs[k].issueA = i /\ approxPairs[k].issueB = j

\* The distinct terms of the comparable text and of the title of an issue
TermsTable ==
    Tabulated([issue \in PairIssues |-> Range(tokenize(issueText(issue)))])

TitleTermsTable ==
    Tabulated([issue \in PairIssues |-> Range(tokenize(issue.title))])

\* C4, amended: bucketedComparison returns every pair of issues with
\* identical titles whose similarity is at least the threshold, when the
\* title has two or more distinct terms and neither comparable text has
\* more distinct terms than a signature holds.
BucketedFindsIdenticalLongTitles ==
    "bucketedComparison" \in done =>
        \A i, j \in DOMAIN corpus :
            /\ i < j
            /\ corpus[i].title = corpus[j].title
            /\ Cardinality(TitleTermsTable[corpus[i]]) >= MinSharedTokens
            /\ Cardinality(TermsTable[corpus[i]]) <= SignatureSize
            /\ Cardinality(TermsTable[corpus[j]]) <= SignatureSize
            /\ FLeq(pairThreshold, SimilarityAt(i, j))
            => \E k \in DOMAIN approxPairs :
                   approxPairs[k].issueA = i /\ approxPairs[k].issueB = j

\* At threshold 0.9 two different issues with the same two-term title are
\* returned by bucketedComparison.
BucketedFindsWitness ==
    /\ "bucketedComparison" \in done
    /\ pairThreshold = NineTenths
    /\ \E k \in DOMAIN approxPairs :
          /\ corpus[approxPairs[k].issueA].title
             = corpus[approxPairs[k].issueB].title
          /\ corpus[approxPairs[k].issueA].id # corpus[approxPairs[k].issueB].id
          /\ Cardinality(TitleTermsTable[corpus[approxPairs[k].issueA]])
             >= MinSharedTokens

\* C12: two issues with identical title and identical description have
\* similarity 1.0.
IdenticalIssuesScoreOne ==
    "bruteForceComparison" \in done =>
        \A k \in DOMAIN exactPairs :
            /\ corpus[exactPairs[k].issueA].title
               = corpus[exactPairs[k].issueB].title
            /\ corpus[exactPairs[k].issueA].description
               = corpus[exactPairs[k].issueB].description
            => exactPairs[k].similarity = FOne

\* C13: two issues whose comparable texts share no term have similarity
\* 0.0 and are returned by neither strategy when the threshold is above 0.
DisjointIssuesExcluded ==
    \A i, j \in DOMAIN corpus :
        i < j /\ TermsTable[corpus[i]] \cap TermsTable[corpus[j]] = {} =>
            /\ SimilarityAt(i, j) = FZero
            /\ FLess(FZero, pairThreshold) =>
                   \A pairs \in ReturnedResults :
                       \A k \in DOMAIN pairs :
                           << pairs[k].issueA, pairs[k].issueB >> # << i, j >>

\* Both strategies have run with a threshold above 0 on a list that holds
\* two issues without a common term, and a pair was returned.
DisjointIssuesWitness ==
    /\ { "bruteForceComparison", "bucketedComparison" } \subseteq done
    /\ FLess(FZero, pairThreshold)
    /\ exactPairs # <<>>
    /\ \E i, j \in DOMAIN corpus :
          i < j /\ TermsTable[corpus[i]] \cap TermsTable[corpus[j]] = {}

(***************************************************************************)
(* tokenize on every text of up to MaxTextLen characters over an alphabet  *)
(* with an upper case and a lower case letter (which spell the stopword    *)
(* "it"), a digit, a space and a punctuation mark; then tokenize on its    *)
(* own output joined by spaces.                                            *)
(***************************************************************************)
MaxTextLen == 5

TextAlphabet == { "I", "t", "1", " ", "-" }

\* words.join(" ")
RECURSIVE JoinBySpace(_)
JoinBySpace(words) ==
    IF words = <<>> THEN <<>>
    ELSE IF Len(words) = 1 THEN words[1]
    ELSE words[1] \o << " " >> \o JoinBySpace(Tail(words))

InitTokenize ==
    /\ sampleText \in SeqsUpTo(TextAlphabet, MaxTextLen)
    /\ sampleTokens = <<>>
    /\ sampleAgain = <<>>
    /\ partnerTitle = <<>>
    /\ partnerDescription = <<>>
    /\ textScore = FZero
    /\ slackScoreOut = FZero
    /\ done = {}
    /\ IdleApp
    /\ IdleCosine
    /\ IdleRank
    /\ IdlePairs
    /\ IdleTerms
    /\ IdlePost

Tokenize ==
    /\ sampleTokens' = tokenize(sampleText)
    /\ done' = done \cup { "tokenize" }
    /\ UNCHANGED appVars
    /\ UNCHANGED << sampleText, sampleAgain, partnerTitle, partnerDescription,
                    textScore, slackScoreOut, cosineVars, rankVars, pairVars,
                    termVars, postVars >>

Retokenize ==
    /\ "tokenize" \in done
    /\ sampleAgain' = tokenize(JoinBySpace(sampleTokens))
    /\ done' = done \cup { "retokenize" }
    /\ UNCHANGED appVars
    /\ UNCHANGED << sampleText, sampleTokens, partnerTitle, partnerDescription,
                    textScore, slackScoreOut, cosineVars, rankVars, pairVars,
                    termVars, postVars >>

NextTokenize == Tokenize \/ Retokenize

SpecTokenize == InitTokenize /\ [][NextTokenize]_vars

IsLetterOrDigit(ch) == ch \in Range(LowerCase) \cup Digit

\* The maximal runs of lower case letters and digits of a lowercased text,
\* as pairs of first and last position
RunsOf(lowered) ==
    { run \in (DOMAIN lowered) \X (DOMAIN lowered) :
        /\ run[1] <= run[2]
        /\ \A i \in run[1] .. run[2] : IsLetterOrDigit(lowered[i])
        /\ run[1] = 1 \/ ~IsLetterOrDigit(lowered[run[1] - 1])
        /\ run[2] = Len(lowered) \/ ~IsLetterOrDigit(lowered[run[2] + 1]) }

\* The runs that are long enough and no stopword
KeptRunsOf(lowered) ==
    { run \in RunsOf(lowered) :
        /\ run[2] - run[1] + 1 >= 2
        /\ SubSeq(lowered, run[1], run[2]) \notin STOPWORDS }

\* The k-th run from the left
NthRun(kept, k) ==
    CHOOSE run \in kept :
        Cardinality({ other \in kept : other[1] < run[1] }) = k - 1

\* The tokens are the kept runs of the lowercased text, from left to right
TokensMatchRuns(tokens, lowered, kept) ==
    /\ Len(tokens) = Cardinality(kept)
    /\ \A k \in DOMAIN tokens :
          tokens[k] = SubSeq(lowered, NthRun(kept, k)[1], NthRun(kept, k)[2])

\* The sample with each character lowercased
LoweredSample == [i \in DOMAIN sampleText |-> LowerChar(sampleText[i])]

\* C15: every token of tokenize consists of lower case letters and digits,
\* is at least 2 long and is no stopword; the tokens are exactly the maximal
\* letter/digit runs of the lowercased text that pass these filters, from
\* left to right.
TokensAreKeptRuns ==
    "tokenize" \in done =>
        /\ \A k \in DOMAIN sampleTokens :
              /\ \A i \in DOMAIN sampleTokens[k] :
                    IsLetterOrDigit(sampleTokens[k][i])
              /\ Len(sampleTokens[k]) >= 2
              /\ sampleTokens[k] \notin STOPWORDS
        /\ TokensMatchRuns(sampleTokens, LoweredSample,
                           KeptRunsOf(LoweredSample))

\* Two tokens come from a text with an upper case letter and a punctuation
\* mark between the words.
TokensAreKeptRunsWitness ==
    /\ "tokenize" \in done
    /\ Len(sampleTokens) = 2
    /\ "I" \in Range(sampleText)
    /\ "-" \in Range(sampleText)
    /\ " " \notin Range(sampleText)

\* C16: tokenize of the tokens of a text joined by single spaces gives the
\* same tokens.
RetokenizeSame == "retokenize" \in done => sampleAgain = sampleTokens

\* A text that differs from its joined tokens, with a token kept and a
\* stopword dropped, has been tokenized twice.
RetokenizeSameWitness ==
    /\ "retokenize" \in done
    /\ sampleTokens # <<>>
    /\ sampleText # JoinBySpace(sampleTokens)
    /\ Len(sampleText) >= 3
    /\ SubSeq(sampleText, 1, 3) = << "I", "t", " " >>

(***************************************************************************)
(* tokenize, textSimilarity and compareSlackToLinear on texts with and     *)
(* without information.  An absent string and the empty string are both    *)
(* falsy at the only place that looks at them (if (!text) return []), and  *)
(* both are the text << >>; an optional description is << >> when absent.  *)
(***************************************************************************)
TextBlank == << " ", "\t", " " >>

TextPunctuation == << "?", "!" >>

TextStopwords == << "I", "t", " ", "i", "s" >>

TextShort == << "x", " ", "7" >>

PlainPool ==
    { <<>>, TextBlank, TextPunctuation, TextStopwords, TextShort,
      TitleLoginCrash, TitleCrash }

DescriptionPool == { NoDescription, << <<>> >>, << TextStopwords >>,
                     << DescTheCrash >> }

InitPlain ==
    /\ sampleText \in PlainPool
    /\ partnerTitle \in PlainPool
    /\ partnerDescription \in DescriptionPool
    /\ sampleTokens = <<>>
    /\ sampleAgain = <<>>
    /\ textScore = FZero
    /\ slackScoreOut = FZero
    /\ done = {}
    /\ IdleApp
    /\ IdleCosine
    /\ IdleRank
    /\ IdlePairs
    /\ IdleTerms
    /\ IdlePost

TextSimilarity ==
    /\ textScore' = textSimilarity(sampleText, partnerTitle)
    /\ done' = done \cup { "textSimilarity" }
    /\ UNCHANGED appVars
    /\ UNCHANGED << sampleText, sampleTokens, sampleAgain, partnerTitle,
                    partnerDescription, slackScoreOut, cosineVars, rankVars,
                    pairVars, termVars, postVars >>

CompareSlackToLinear ==
    /\ slackScoreOut' =
           compareSlackToLinear(sampleText, partnerTitle, partnerDescription)
    /\ done' = done \cup { "compareSlackToLinear" }
    /\ UNCHANGED appVars
    /\ UNCHANGED << sampleText, sampleTokens, sampleAgain, partnerTitle,
                    partnerDescription, textScore, cosineVars, rankVars,
                    pairVars, termVars, postVars >>

NextPlain == Tokenize \/ TextSimilarity \/ CompareSlackToLinear

SpecPlain == InitPlain /\ [][NextPlain]_vars

\* A text without a significant token: no run of letters and digits of the
\* lowercased text is 2 long or longer and no stopword
NoInformation(text) ==
    KeptRunsOf([i \in DOMAIN text |-> LowerChar(text[i])]) = {}

\* C14: text without information never raises an error: tokenize of an empty
\* or absent string is the empty sequence, cosineSimilarity is 0 when either
\* vector is empty, and textSimilarity and compareSlackToLinear are 0 when
\* either text is empty, absent or without significant tokens, an absent
\* description included.
NoInformationScoresZero ==
    /\ "tokenize" \in done /\ sampleText = <<>> => sampleTokens = <<>>
    /\ "tokenize" \in done /\ NoInformation(sampleText)
          => cosineSimilarity(termFrequency(sampleTokens),
                              termFrequency(tokenize(TitleLoginCrash)))
             = FZero
    /\ "textSimilarity" \in done
       /\ (NoInformation(sampleText) \/ NoInformation(partnerTitle))
          => textScore = FZero
    /\ "compareSlackToLinear" \in done
       /\ \/ NoInformation(sampleText)
          \/ /\ NoInformation(partnerTitle)
             /\ \/ partnerDescription = NoDescription
                \/ NoInformation(partnerDescription[1])
          => slackScoreOut = FZero

\* All three have returned for a text with tokens and a title of punctuation
\* only with an absent description.
NoInformationWitness ==
    /\ done = { "tokenize", "textSimilarity", "compareSlackToLinear" }
    /\ sampleTokens # <<>>
    /\ partnerTitle = TextPunctuation
    /\ partnerDescription = NoDescription
    /\ textScore = FZero
    /\ slackScoreOut = FZero

(***************************************************************************)
(* termFrequency on a token sequence and on a permutation of it.           *)
(***************************************************************************)
MaxTokens == 4

TermDark == << "d", "a", "r", "k" >>

TermPool == { TermLogin, TermCrash, TermDark }

\* The number of places of a sequence that hold a value
Occurrences(tokens, token) ==
    Cardinality({ k \in DOMAIN tokens : tokens[k] = token })

InitTerms ==
    /\ tokenList \in SeqsUpTo(TermPool, MaxTokens)
    /\ tokenShuffle \in
          { shuffled \in [DOMAIN tokenList -> TermPool] :
              \A term \in TermPool :
                 Occurrences(shuffled, term) = Occurrences(tokenList, term) }
    /\ tokenCounts = <<>>
    /\ shuffleCounts = <<>>
    /\ done = {}
    /\ IdleApp
    /\ IdleCosine
    /\ IdleRank
    /\ IdlePairs
    /\ IdleText
    /\ IdlePost

CountTokens ==
    /\ tokenCounts' = termFrequency(tokenList)
    /\ done' = done \cup { "tokenList" }
    /\ UNCHANGED appVars
    /\ UNCHANGED << tokenList, tokenShuffle, shuffleCounts, cosineVars,
                    rankVars, pairVars, textVars, postVars >>

CountShuffle ==
    /\ shuffleCounts' = termFrequency(tokenShuffle)
    /\ done' = done \cup { "tokenShuffle" }
    /\ UNCHANGED appVars
    /\ UNCHANGED << tokenList, tokenShuffle, tokenCounts, cosineVars,
                    rankVars, pairVars, textVars, postVars >>

NextTerms == CountTokens \/ CountShuffle

SpecTerms == InitTerms /\ [][NextTerms]_vars

\* C17: termFrequency maps each distinct token to its number of occurrences:
\* every count is a positive integer, a token that does not occur has no
\* key, the counts sum to the length of the sequence, and a permutation of
\* the sequence gives the same mapping.
TermFrequencyCounts ==
    /\ "tokenList" \in done =>
          /\ \A i \in DOMAIN tokenCounts :
                /\ tokenCounts[i].val \in Nat \ { 0 }
                /\ tokenCounts[i].val
                      = Occurrences(tokenList, tokenCounts[i].key)
                /\ \A j \in DOMAIN tokenCounts :
                      tokenCounts[j].key = tokenCounts[i].key => j = i
          /\ { tokenCounts[i].key : i \in DOMAIN tokenCounts }
                = Range(tokenList)
          /\ SumTo([i \in DOMAIN tokenCounts |-> tokenCounts[i].val],
                   Len(tokenCounts)) = Len(tokenList)
    /\ { "tokenList", "tokenShuffle" } \subseteq done =>
          Range(tokenCounts) = Range(shuffleCounts)

\* A sequence with a repeated token and a permutation of it that meets the
\* tokens in another order have both been counted.
TermFrequencyWitness ==
    /\ done = { "tokenList", "tokenShuffle" }
    /\ Len(tokenCounts) >= 2
    /\ \E i \in DOMAIN tokenCounts : tokenCounts[i].val >= 2
    /\ tokenCounts # shuffleCounts

(***************************************************************************)
(* route.ts: POST.  A JavaScript number is NaN, an infinity or a finite     *)
(* value with a sign; the similarity functions meet only abs of a valid    *)
(* threshold, which is not negative (-0 compares as 0).                    *)
(***************************************************************************)
NumberNaN == [kind |-> "NaN", neg |-> FALSE, abs |-> FZero]

NumberInfinity(neg) == [kind |-> "Infinity", neg |-> neg, abs |-> FZero]

NumberFinite(neg, abs) == [kind |-> "finite", neg |-> neg, abs |-> abs]

DigitChars == << "0", "1", "2", "3", "4", "5", "6", "7", "8", "9" >>

DigitValue(ch) == (CHOOSE k \in DOMAIN DigitChars : DigitChars[k] = ch) - 1

\* The first position from a position on whose character is not in a set
FirstOutside(text, from, set) ==
    CHOOSE k \in from .. Len(text) + 1 :
        /\ k = Len(text) + 1 \/ text[k] \notin set
        /\ \A m \in from .. k - 1 : text[m] \in set

\* The value of the decimal digits text[from .. to]
RECURSIVE DecimalValue(_, _, _)
DecimalValue(text, from, to) ==
    IF from > to THEN 0
    ELSE 10 * DecimalValue(text, from, to - 1) + DigitValue(text[to])

RECURSIVE PowerOfTen(_)
PowerOfTen(n) == IF n = 0 THEN 1 ELSE 10 * PowerOfTen(n - 1)

\* The double nearest to digits * 10^exponent: both operands of the
\* division are exact, so the quotient rounds once
DecimalToNumber(digits, exponent) ==
    IF exponent >= 0 THEN FFromInt(digits * PowerOfTen(exponent))
    ELSE FDiv(FFromInt(digits), FFromInt(PowerOfTen(0 - exponent)))

HasAt(text, at, word) ==
    /\ at + Len(word) - 1 <= Len(text)
    /\ SubSeq(text, at, at + Len(word) - 1) = word

\* The ExponentPart at a position, if there is one: e or E, a sign or none,
\* and at least one digit
ExponentAt(text, at) ==
    LET marked == at <= Len(text) /\ text[at] \in { "e", "E" }
        signed == marked /\ at + 1 <= Len(text)
                         /\ text[at + 1] \in { "+", "-" }
        first == IF signed THEN at + 2 ELSE at + 1
        last == FirstOutside(text, first, Digit) - 1
    IN  IF marked /\ last >= first
        THEN (IF signed /\ text[at + 1] = "-" THEN -1 ELSE 1)
                * DecimalValue(text, first, last)
        ELSE 0

\* The unsigned StrDecimalLiteral that is the longest prefix of text from a
\* position on: Infinity, or digits with a fraction and an exponent
UnsignedLiteral(text, at, neg) ==
    LET intEnd == FirstOutside(text, at, Digit)
        dotted == intEnd <= Len(text) /\ text[intEnd] = "."
        fracEnd == IF dotted THEN FirstOutside(text, intEnd + 1, Digit)
                   ELSE intEnd
        fracLen == IF dotted THEN fracEnd - intEnd - 1 ELSE 0
        intLen == intEnd - at
    IN  IF HasAt(text, at, << "I", "n", "f", "i", "n", "i", "t", "y" >>)
        THEN NumberInfinity(neg)
        ELSE IF intLen + fracLen = 0 THEN NumberNaN
        ELSE NumberFinite(neg,
                 DecimalToNumber(
                     DecimalValue(text, at, intEnd - 1) * PowerOfTen(fracLen)
                         + DecimalValue(text, intEnd + 1, fracEnd - 1),
                     ExponentAt(text, fracEnd) - fracLen))

\* parseFloat(text): leading white space is skipped, then the longest prefix
\* that is a decimal literal is the value; NaN without such a prefix
parseFloat(text) ==
    LET start == FirstOutside(text, 1, WhiteSpace)
        signed == start <= Len(text) /\ text[start] \in { "+", "-" }
    IN  UnsignedLiteral(text, IF signed THEN start + 1 ELSE start,
                        signed /\ text[start] = "-")

DefaultThreshold == << "0", ".", "5" >>

\* searchParams.get("threshold") || "0.5": null and "" are falsy
thresholdText(param) ==
    IF param = <<>> \/ param[1] = <<>> THEN DefaultThreshold ELSE param[1]

isNaN(number) == number.kind = "NaN"

\* number < 0
LessThanZero(number) ==
    /\ number.kind # "NaN"
    /\ number.neg
    /\ number.kind = "Infinity" \/ number.abs # FZero

\* number > 1
GreaterThanOne(number) ==
    /\ number.kind # "NaN"
    /\ ~number.neg
    /\ number.kind = "Infinity" \/ FLess(FOne, number.abs)

\* A variant of invalidThreshold without the test against 1.
invalidThresholdBelowOnly(threshold) ==
    isNaN(threshold) \/ LessThanZero(threshold)

\* isNaN(threshold) || threshold < 0 || threshold > 1
invalidThreshold(threshold) ==
    isNaN(threshold) \/ LessThanZero(threshold) \/ GreaterThanOne(threshold)

LARGE_DATASET_THRESHOLD == 400

\* A variant of isLargeDataset that takes the cutoff itself as large.
isLargeDatasetFromCutoff(count) == count >= LARGE_DATASET_THRESHOLD

\* issues.length > LARGE_DATASET_THRESHOLD
isLargeDataset(count) == count > LARGE_DATASET_THRESHOLD

\* A variant of sortBySimilarity that leaves the pairs as they are.
keepPairOrder(pairs) == pairs

\* (a, b) => b.similarity - a.similarity
SimilarityDescending(a, b) == FLess(b.similarity, a.similarity)

\* pairs.sort((a, b) => b.similarity - a.similarity)
sortBySimilarity(pairs) ==
    ArraySort(pairs, [i \in DOMAIN pairs |-> [j \in DOMAIN pairs |->
                         SimilarityDescending(pairs[i], pairs[j])]])

\* body.issues || []: the value of the field is absent, an array or
\* something else that is truthy
issuesOrEmpty(body) ==
    IF body.issues.kind = "absent" THEN [kind |-> "array", items |-> <<>>]
    ELSE body.issues

errorResponse(status, message) == [status |-> status, error |-> message]

\* The strategy POST calls for an array of issues
strategyFor(issues) ==
    IF isLargeDataset(Len(issues)) THEN "bucketedComparison"
    ELSE "bruteForceComparison"

\* The pairs of the strategy, sorted
sortedPairs(issues, threshold) ==
    sortBySimilarity(IF isLargeDataset(Len(issues))
                     THEN bucketedComparison(issues, threshold)
                     ELSE bruteForceComparison(issues, threshold))

\* The response of the try block for a valid threshold and an array.  The
\* time stamp generatedAt is left out.
successResponse(issues, threshold) ==
    CHOOSE sent \in
        { [status |-> 200,
           threshold |-> threshold,
           totalIssues |-> Len(issues),
           totalPairsReturned |-> Len(pairs),
           approximationMode |-> isLargeDataset(Len(issues)),
           pairs |-> pairs] : pairs \in { sortedPairs(issues, threshold) } } :
        TRUE

\* The calls of the strategies that POST makes for a request
strategyCalls(param, body) ==
    IF invalidThreshold(parseFloat(thresholdText(param))) THEN <<>>
    ELSE IF ~body.json THEN <<>>
    ELSE IF issuesOrEmpty(body).kind # "array" THEN <<>>
    ELSE << [strategy |-> strategyFor(issuesOrEmpty(body).items),
             threshold |-> parseFloat(thresholdText(param)).abs,
             count |-> Len(issuesOrEmpty(body).items)] >>

\* The response POST sends for a request; request.json() throws on a body
\* that is no JSON, which the catch block answers
postResponse(param, body) ==
    IF invalidThreshold(parseFloat(thresholdText(param)))
    THEN errorResponse(400, "Invalid threshold. Must be between 0 and 1.")
    ELSE IF ~body.json THEN errorResponse(500, "Internal server error")
    ELSE IF issuesOrEmpty(body).kind # "array"
         THEN errorResponse(400, "Issues must be an array.")
    ELSE successResponse(issuesOrEmpty(body).items,
                         parseFloat(thresholdText(param)).abs)

\* Values of the query parameter threshold; the parameter is optional
ParamZero == << "0" >>

ParamMinusZero == << "-", "0" >>

ParamHalf == << "0", ".", "5" >>

ParamPointNine == << ".", "9" >>

ParamOne == << "1" >>

ParamOneAndHalf == << "1", ".", "5" >>

ParamMinusTenth == << "-", "0", ".", "1" >>

ParamWord == << "a", "b", "c" >>

ParamInfinity == << "I", "n", "f", "i", "n", "i", "t", "y" >>

ParamSpaced == << " ", "0", ".", "7" >>

ParamTrailing == << "0", ".", "5", "x" >>

ParamTen == << "1", "e", "1" >>

ParamHalfExponent == << "5", "e", "-", "1" >>

ThresholdParams ==
    { <<>>, << <<>> >> } \cup
    { << text >> : text \in
        { ParamZero, ParamMinusZero, ParamHalf, ParamPointNine, ParamOne,
          ParamOneAndHalf, ParamMinusTenth, ParamWord, ParamInfinity,
          ParamSpaced, ParamTrailing, ParamTen, ParamHalfExponent } }

\* The parameters sent with the long arrays
LongThresholdParams == { << ParamHalf >>, << ParamOneAndHalf >> }

MaxPosted == 3

PostIssues == { IssuePool[k] : k \in { 1, 3, 5, 7 } }

\* An array of a length whose first elements and last element are given and
\* whose other elements are blank issues
LongArray(planted, length) ==
    [k \in 1 .. length |->
        IF k < Len(planted) THEN planted[k]
        ELSE IF k = length THEN planted[Len(planted)]
        ELSE BlankIssue]

\* Arrays at the cutoff and one above it
LongArrays ==
    { LongArray(planted, length) :
        planted \in { << IssuePool[3], IssuePool[4] >>,
                      << IssuePool[7], IssuePool[5], IssuePool[5] >> },
        length \in { LARGE_DATASET_THRESHOLD, LARGE_DATASET_THRESHOLD + 1 } }

bodyWithIssues(items) ==
    [json |-> TRUE, issues |-> [kind |-> "array", items |-> items]]

\* No JSON, an object without issues, an object whose issues are a string
OtherBodies ==
    { [json |-> FALSE, issues |-> [kind |-> "absent", items |-> <<>>]],
      [json |-> TRUE, issues |-> [kind |-> "absent", items |-> <<>>]],
      [json |-> TRUE, issues |-> [kind |-> "string", items |-> <<>>]] }

InitPost ==
    /\ \/ /\ reqThreshold \in ThresholdParams
          /\ reqBody \in OtherBodies \cup
                { bodyWithIssues(items) :
                    items \in SeqsUpTo(PostIssues, MaxPosted) }
       \/ /\ reqThreshold \in LongThresholdParams
          /\ reqBody \in { bodyWithIssues(items) : items \in LongArrays }
    /\ response = <<>>
    /\ postCalls = <<>>
    /\ done = {}
    /\ IdleApp
    /\ IdleCosine
    /\ IdleRank
    /\ IdlePairs
    /\ IdleText
    /\ IdleTerms

POST ==
    /\ "POST" \notin done
    /\ response' = postResponse(reqThreshold, reqBody)
    /\ postCalls' = strategyCalls(reqThreshold, reqBody)
    /\ done' = done \cup { "POST" }
    /\ UNCHANGED appVars
    /\ UNCHANGED << reqThreshold, reqBody, cosineVars, rankVars, pairVars,
                    textVars, termVars >>

NextPost == POST

SpecPost == InitPost /\ [][NextPost]_vars

\* The issues of the request, for a request that was answered with pairs
PostedIssues == issuesOrEmpty(reqBody).items

\* C18: the pairs of a successful response are in order of non-increasing
\* similarity, whichever strategy found them.
ResponsePairsSorted ==
    "POST" \in done /\ response.status = 200 =>
        \A k \in 1 .. Len(response.pairs) - 1 :
            FLeq(response.pairs[k + 1].similarity,
                 response.pairs[k].similarity)

\* A response holds a pair found later before a pair found earlier.
ResponsePairsSortedWitness ==
    /\ "POST" \in done
    /\ response.status = 200
    /\ \E k \in 1 .. Len(response.pairs) - 1 :
          /\ response.pairs[k + 1].issueA < response.pairs[k].issueA
          /\ FLess(response.pairs[k + 1].similarity,
                   response.pairs[k].similarity)

\* The same for a response of the approximate strategy.
ApproximatePairsSortedWitness ==
    /\ ResponsePairsSortedWitness
    /\ response.approximationMode

\* C19: POST runs bucketedComparison exactly when there are more than 400
\* issues and bruteForceComparison when there are 400 or fewer, and
\* approximationMode is true exactly when bucketedComparison ran.
StrategyByCount ==
    "POST" \in done /\ response.status = 200 =>
        /\ Len(postCalls) = 1
        /\ postCalls[1].strategy =
              (IF Len(PostedIssues) > 400 THEN "bucketedComparison"
               ELSE "bruteForceComparison")
        /\ response.approximationMode
              = (postCalls[1].strategy = "bucketedComparison")

\* 401 issues went to bucketedComparison, which missed the pair that shares
\* one token.
StrategyByCountWitness ==
    /\ "POST" \in done
    /\ response.status = 200
    /\ Len(PostedIssues) = 401
    /\ PostedIssues[1] = IssuePool[3]
    /\ response.approximationMode
    /\ response.pairs = <<>>

\* The parameters that parse to NaN, to less than 0 or to more than 1
ParamsOutsideUnitInterval ==
    { << ParamOneAndHalf >>, << ParamMinusTenth >>, << ParamWord >>,
      << ParamInfinity >>, << ParamTen >> }

\* C20: no strategy runs with a threshold outside [0, 1]: a request whose
\* threshold parses to NaN, below 0 or above 1 is answered with status 400
\* and an error, and no issues are compared.
ThresholdOutsideRejected ==
    /\ \A k \in DOMAIN postCalls :
          /\ FLeq(FZero, postCalls[k].threshold)
          /\ FLeq(postCalls[k].threshold, FOne)
    /\ "POST" \in done /\ reqThreshold \in ParamsOutsideUnitInterval =>
          /\ response.status = 400
          /\ response.error # ""
          /\ postCalls = <<>>

\* A request with three issues and the threshold 1.5 was answered.
ThresholdOutsideWitness ==
    /\ "POST" \in done
    /\ reqThreshold = << ParamOneAndHalf >>
    /\ reqBody.json
    /\ Len(PostedIssues) = 3
    /\ response.status = 400

(***************************************************************************)
(* The core functions on the objects of a caller.  Arrays and Maps are     *)
(* objects: objects[ref] is the content of the object with the reference   *)
(* ref.  Each function is given by what it allocates and what it writes;   *)
(* strings and numbers are values and cannot be written to.  The objects   *)
(* that exist only inside a callee that receives nothing but strings are   *)
(* left out.                                                               *)
(***************************************************************************)
\* A new object
allocate(heap, content) ==
    [heap |-> Append(heap, content), ref |-> Len(heap) + 1]

\* A write to an object
writeTo(heap, ref, content) ==
    [heap |-> [heap EXCEPT ![ref] = content], ref |-> ref]

\* A variant of arrayMap that stores the mapped elements in the array itself.
arrayMapInPlace(heap, ref, mapped) == writeTo(heap, ref, mapped)

\* array.map(...): a new array
arrayMap(heap, ref, mapped) == allocate(heap, mapped)

\* array.filter(...): a new array
arrayFilter(heap, ref, kept) == allocate(heap, kept)

\* array.sort(...): sorts the array itself and returns it
arraySort(heap, ref, sorted) == writeTo(heap, ref, sorted)

\* tokenize: split makes an array, filter makes the array that is returned
tokenizeOn(heap, text) ==
    IF text = <<>> THEN allocate(heap, <<>>)
    ELSE LET words == allocate(heap,
                 splitWhiteSpace(replaceNonAlphanumeric(toLowerCase(text))))
         IN  arrayFilter(words.heap, words.ref,
                         SelectSeq(words.heap[words.ref], isSignificant))

\* termFrequency: new Map(), then tf.set for each token
termFrequencyOn(heap, tokensRef) ==
    LET tf == allocate(heap, <<>>)
    IN  writeTo(tf.heap, tf.ref, MapCount(tf.heap[tf.ref], heap[tokensRef], 1))

\* cosineSimilarity reads the two Maps
cosineSimilarityOn(heap, tf1Ref, tf2Ref) ==
    [heap |-> heap, value |-> cosineSimilarity(heap[tf1Ref], heap[tf2Ref])]

\* findSimilarIssues: map, filter and sort, each on the result of the step
\* before
findSimilarIssuesOn(heap, slackText, issuesRef, minScore) ==
    CHOOSE sorted \in
        { arraySort(kept.heap, kept.ref, sortByScore(kept.heap[kept.ref])) :
            kept \in
              { arrayFilter(results.heap, results.ref,
                            SelectSeq(results.heap[results.ref],
                                      LAMBDA r : FLeq(minScore, r.score))) :
                  results \in
                    { arrayMap(heap, issuesRef,
                               [i \in DOMAIN heap[issuesRef] |->
                                   [issue |-> i,
                                    score |-> slackScore(slackText,
                                                         heap[issuesRef][i])]])
                    } } } :
        TRUE

\* bruteForceComparison: const pairs = [], then pairs.push
bruteForceComparisonOn(heap, issuesRef, threshold) ==
    LET pairs == allocate(heap, <<>>)
    IN  writeTo(pairs.heap, pairs.ref,
                pairs.heap[pairs.ref]
                    \o bruteForceComparison(pairs.heap[issuesRef], threshold))

\* bucketedComparison: pairs, seen, tokenIndex and issueTokens are new; the
\* index and the signatures are filled from the issues, then pairs.push
bucketedComparisonOn(heap, issuesRef, threshold) ==
    LET pairs == allocate(heap, <<>>)
        seen == allocate(pairs.heap, <<>>)
        tokenIndex == allocate(seen.heap, <<>>)
        issueTokens == allocate(tokenIndex.heap, signatures(heap[issuesRef]))
    IN  writeTo(issueTokens.heap, pairs.ref,
                bucketedComparison(issueTokens.heap[issuesRef], threshold))

MaxCalls == 2

FrameIssueLists ==
    { << IssuePool[1] >>,
      << IssuePool[3], IssuePool[1] >>,
      << IssuePool[5], IssuePool[3], IssuePool[1] >> }

\* The references of the caller's objects: the issues, the tokens of the
\* text, their term frequencies and the term frequencies of the first issue
CallerRefs == [issues |-> 1, tokens |-> 2, vector |-> 3, otherVector |-> 4]

InitFrame ==
    /\ callerText \in { QueryLoginCrash, QueryDarkMode }
    /\ \E issues \in FrameIssueLists :
          objects = << issues,
                       tokenize(callerText),
                       termFrequency(tokenize(callerText)),
                       termFrequency(tokenize(issueText(issues[1]))) >>
    /\ callerObjects = objects
    /\ lastResult = <<>>
    /\ callLog = <<>>
    /\ done = {}
    /\ IdleBesidesFrame

\* A call returns: the memory is as the call left it
Returned(name, argument, after, value) ==
    /\ Len(callLog) < MaxCalls
    /\ objects' = after
    /\ lastResult' = << value >>
    /\ callLog' = Append(callLog, [name |-> name, argument |-> argument])
    /\ done' = done \cup { name }
    /\ UNCHANGED << callerObjects, callerText, besidesFrame >>

CallTokenize ==
    LET call == tokenizeOn(objects, callerText)
    IN  Returned("tokenize", FZero, call.heap, call.heap[call.ref])

CallTermFrequency ==
    LET call == termFrequencyOn(objects, CallerRefs.tokens)
    IN  Returned("termFrequency", FZero, call.heap, call.heap[call.ref])

CallCosineSimilarity ==
    LET call == cosineSimilarityOn(objects, CallerRefs.vector, CallerRefs.otherVector)
    IN  Returned("cosineSimilarity", FZero, call.heap, call.value)

CallFindSimilarIssues ==
    \E minScore \in { FZero, Half } :
        LET call == findSimilarIssuesOn(objects, callerText, CallerRefs.issues,
                                        minScore)
        IN  Returned("findSimilarIssues", minScore, call.heap,
                     call.heap[call.ref])

CallBruteForceComparison ==
    \E threshold \in { FZero, Half } :
        LET call == bruteForceComparisonOn(objects, CallerRefs.issues, threshold)
        IN  Returned("bruteForceComparison", threshold, call.heap,
                     call.heap[call.ref])

CallBucketedComparison ==
    \E threshold \in { FZero, Half } :
        LET call == bucketedComparisonOn(objects, CallerRefs.issues, threshold)
        IN  Returned("bucketedComparison", threshold, call.heap,
                     call.heap[call.ref])

NextFrame ==
    \/ CallTokenize
    \/ CallTermFrequency
    \/ CallCosineSimilarity
    \/ CallFindSimilarIssues
    \/ CallBruteForceComparison
    \/ CallBucketedComparison

SpecFrame == InitFrame /\ [][NextFrame]_vars

\* What a call returns when it is the only call ever made
FirstResult(call) ==
    CASE call.name = "tokenize" -> tokenize(callerText)
      [] call.name = "termFrequency" ->
             termFrequency(callerObjects[CallerRefs.tokens])
      [] call.name = "cosineSimilarity" ->
             cosineSimilarity(callerObjects[CallerRefs.vector],
                              callerObjects[CallerRefs.otherVector])
      [] call.name = "findSimilarIssues" ->
             findSimilarIssues(callerText, callerObjects[CallerRefs.issues],
                               call.argument)
      [] call.name = "bruteForceComparison" ->
             bruteForceComparison(callerObjects[CallerRefs.issues], call.argument)
      [] call.name = "bucketedComparison" ->
             bucketedComparison(callerObjects[CallerRefs.issues], call.argument)

\* C21: the core operations have no side effects: after a call returns, the
\* caller's objects (the issue list with its order, the token list, the
\* term-frequency Maps) are as before, and the result of a call does not
\* depend on the calls made before it.
CallsLeaveInputsAlone ==
    /\ \A ref \in DOMAIN callerObjects : objects[ref] = callerObjects[ref]
    /\ callLog # <<>> =>
          lastResult = << FirstResult(callLog[Len(callLog)]) >>

\* findSimilarIssues has returned an array in another order than the
\* caller's list, after an earlier call of a pair finder.
CallsLeaveInputsAloneWitness ==
    /\ Len(callLog) = 2
    /\ callLog[1].name = "bruteForceComparison"
    /\ callLog[2] = [name |-> "findSimilarIssues", argument |-> FZero]
    /\ Len(lastResult[1]) = 3
    /\ lastResult[1][1].issue # 1

(***************************************************************************)
(* The suggestions of the review page.                                     *)
(***************************************************************************)
\* array.slice(start, end)
arraySlice(array, start, end) ==
    SubSeq(array, start + 1, IF end < Len(array) THEN end ELSE Len(array))

SuggestionCount == 3

\* A variant of topSuggestions that keeps the end of the results.
lastSuggestions(results) ==
    arraySlice(results,
               IF Len(results) > SuggestionCount
               THEN Len(results) - SuggestionCount ELSE 0,
               Len(results))

\* results.slice(0, 3)
topSuggestions(results) == arraySlice(results, 0, SuggestionCount)

\* currentMessage.issueRequest || currentMessage.rawText
textToCompare(message) ==
    IF message.issueRequest # <<>> THEN message.issueRequest
    ELSE message.rawText

\* The suggestions memo
suggestionsFor(message, linearIssues) ==
    IF message = <<>> \/ Len(linearIssues) = 0 THEN <<>>
    ELSE topSuggestions(findSimilarIssues(textToCompare(message[1]),
                                          linearIssues, Hundredth))

MaxSuggestIssues == 4

SuggestIssues == { IssuePool[k] : k \in { 1, 3, 4, 5 } }

SuggestMessages ==
    [issueRequest : { <<>>, QueryLoginCrash, QueryDarkMode },
     rawText : { QueryDashboard, QueryLoginCrash }]

InitSuggest ==
    /\ shownMessage \in { <<>> } \cup { << m >> : m \in SuggestMessages }
    /\ storedIssues \in SeqsUpTo(SuggestIssues, MaxSuggestIssues)
    /\ suggestions = <<>>
    /\ done = {}
    /\ IdleBesidesSuggest

\* The page renders: the memo computes the suggestions
Suggest ==
    /\ "suggestions" \notin done
    /\ suggestions' = suggestionsFor(shownMessage, storedIssues)
    /\ done' = done \cup { "suggestions" }
    /\ UNCHANGED << shownMessage, storedIssues, besidesSuggest >>

NextSuggest == Suggest

SpecSuggest == InitSuggest /\ [][NextSuggest]_vars

\* The score of the issue at a position of the store for the shown message
suggestScore(k) ==
    slackScore(textToCompare(shownMessage[1]), storedIssues[k])

\* The positions of the suggested issues
suggestedPositions == { suggestions[n].issue : n \in DOMAIN suggestions }

\* C22: the review page shows the top 3 matching issues: at most 3
\* suggestions, each for another issue of the store with its score, each
\* score >= 0.01, as many as there are issues with such a score up to 3, in
\* descending order, and no issue left out has a strictly higher score than
\* one shown.
SuggestionsAreTopThree ==
    "suggestions" \in done =>
        IF shownMessage = <<>> \/ storedIssues = <<>> THEN suggestions = <<>>
        ELSE
            LET matching == { k \in DOMAIN storedIssues :
                                FLeq(Hundredth, suggestScore(k)) }
            IN  /\ Len(suggestions) <= 3
                /\ Len(suggestions) =
                      IF Cardinality(matching) < 3 THEN Cardinality(matching)
                      ELSE 3
                /\ Cardinality(suggestedPositions) = Len(suggestions)
                /\ suggestedPositions \subseteq matching
                /\ \A n \in DOMAIN suggestions :
                      /\ suggestions[n].score =
                            suggestScore(suggestions[n].issue)
                      /\ FLeq(Hundredth, suggestions[n].score)
                      /\ n > 1 => FLeq(suggestions[n].score,
                                       suggestions[n - 1].score)
                      /\ \A k \in DOMAIN storedIssues \ suggestedPositions :
                            ~ FLess(suggestions[n].score, suggestScore(k))

\* Three suggestions are shown for a message with a request, a fourth
\* matching issue with a lower score is left out, and the best match is not
\* the first issue of the store.
SuggestionsAreTopThreeWitness ==
    /\ "suggestions" \in done
    /\ shownMessage # <<>>
    /\ shownMessage[1].issueRequest # <<>>
    /\ Len(suggestions) = 3
    /\ suggestions[1].issue # 1
    /\ \E k \in DOMAIN storedIssues \ suggestedPositions :
          /\ FLeq(Hundredth, suggestScore(k))
          /\ FLess(suggestScore(k), suggestions[3].score)

(***************************************************************************)
(* The pairs the approximate strategy scores and returns.                  *)
(***************************************************************************)
\* The number of terms the signatures of the issues at two positions share
SharedSignatureTerms(i, j) ==
    Cardinality(Range(issueTopTokens(corpus[i]))
                \cap Range(issueTopTokens(corpus[j])))

\* The pairs of positions i < j whose signatures share two or more terms
GatedPositions ==
    { p \in (DOMAIN corpus) \X (DOMAIN corpus) :
        p[1] < p[2] /\ SharedSignatureTerms(p[1], p[2]) >= 2 }

\* C23: in the approximate strategy a pair of positions i < j is returned if
\* and only if the signatures of the two records share at least 2 terms and
\* the similarity of their comparable texts is >= threshold, it is returned
\* once, and a pair that shares 0 or 1 signature term is neither scored nor
\* returned.
BucketedReturnsGatedSimilar ==
    "bucketedComparison" \in done =>
        /\ { << approxPairs[k].issueA, approxPairs[k].issueB >> :
               k \in DOMAIN approxPairs }
           = { p \in GatedPositions :
                 FLeq(pairThreshold, SimilarityAt(p[1], p[2])) }
        /\ \A k, l \in DOMAIN approxPairs :
              /\ approxPairs[k].issueA = approxPairs[l].issueA
              /\ approxPairs[k].issueB = approxPairs[l].issueB
              => k = l
        /\ \A k \in DOMAIN approxPairs :
              approxPairs[k].similarity
              = SimilarityAt(approxPairs[k].issueA, approxPairs[k].issueB)
        /\ scoredPairs = GatedPositions

\* One pair is returned, and another pair shares a single signature term,
\* has a similarity of at least the threshold and is not scored.
BucketedReturnsGatedSimilarWitness ==
    /\ "bucketedComparison" \in done
    /\ Len(approxPairs) >= 1
    /\ \E i, j \in DOMAIN corpus :
          /\ i < j
          /\ SharedSignatureTerms(i, j) = 1
          /\ FLeq(pairThreshold, SimilarityAt(i, j))
          /\ FLess(FZero, pairThreshold)
          /\ << i, j >> \notin scoredPairs

(***************************************************************************)
(* The tokenizations of one findSimilarIssues call.                        *)
(***************************************************************************)
\* The calls of tokenize with the query text of the call
QueryTokenizations ==
    { k \in DOMAIN tokenizedTexts : tokenizedTexts[k].parameter = "text1" }

\* C24 as stated: in one findSimilarIssues call the query text is tokenized
\* and vectorized once, and not once per candidate.
QueryTokenizedOnce ==
    "findSimilarIssues" \in done => Cardinality(QueryTokenizations) <= 1

\* What the code does: the query text is tokenized once per candidate.
QueryTokenizedPerCandidate ==
    "findSimilarIssues" \in done =>
        /\ Cardinality(QueryTokenizations) = Len(rankCandidates)
        /\ \A k \in QueryTokenizations : tokenizedTexts[k].text = rankQuery

(***************************************************************************)
(* The signature of a text.                                                *)
(***************************************************************************)
MaxExtraWords == 2

WordCrash == << "c", "r", "a", "s", "h" >>

WordMode == << "m", "o", "d", "e" >>

WordPhp == << "p", "h", "p" >>

SignatureWords == { WordCrash, WordMode, WordPhp }

SignatureBases == { <<>>, TitleDarkMode, DescLong }

InitSignature ==
    /\ \E base \in SignatureBases, before \in SeqsUpTo(SignatureWords, 1),
          after \in SeqsUpTo(SignatureWords, MaxExtraWords) :
          signText = JoinBySpace(before \o << base >> \o after)
    /\ signature = <<>>
    /\ done = {}
    /\ IdleBesidesSignature

GetTopTokens ==
    /\ "getTopTokens" \notin done
    /\ signature' = getTopTokens(signText, SignatureSize)
    /\ done' = done \cup { "getTopTokens" }
    /\ UNCHANGED << signText, besidesSignature >>

NextSignature == GetTopTokens

SpecSignature == InitSignature /\ [][NextSignature]_vars

\* The number of times a term occurs in a list of tokens, and the place of
\* its first occurrence
FrequencyIn(tokens, term) ==
    Cardinality({ k \in DOMAIN tokens : tokens[k] = term })

FirstPlaceIn(tokens, term) ==
    CHOOSE k \in DOMAIN tokens :
        /\ tokens[k] = term
        /\ \A l \in 1 .. (k - 1) : tokens[l] # term

\* The signature is the top of the terms of a list of tokens: at most 10
\* terms, no term twice, as many as there are terms up to 10, no term outside
\* more frequent than one inside, and of two equally frequent terms the one
\* that occurs first in the text is taken first
SignatureIsTopOf(tokens) ==
    /\ Len(signature) <= 10
    /\ Cardinality(Range(signature)) = Len(signature)
    /\ Range(signature) \subseteq Range(tokens)
    /\ Len(signature) = IF Cardinality(Range(tokens)) < 10
                        THEN Cardinality(Range(tokens)) ELSE 10
    /\ \A inside \in Range(signature) :
          \A outside \in Range(tokens) \ Range(signature) :
              \/ FrequencyIn(tokens, outside) < FrequencyIn(tokens, inside)
              \/ /\ FrequencyIn(tokens, outside) = FrequencyIn(tokens, inside)
                 /\ FirstPlaceIn(tokens, inside) < FirstPlaceIn(tokens, outside)

\* C25: the signature set getTopTokens returns has at most 10 terms, all of
\* them terms of the text, no term outside the set has a strictly higher
\* frequency than a term inside it, and ties in frequency are broken by the
\* text alone: the term that occurs first in the text is preferred.
SignatureIsTopTen ==
    "getTopTokens" \in done => SignatureIsTopOf(tokenize(signText))

\* A text with more than 10 terms whose signature leaves out a term that is
\* as frequent as one inside it, and a term that is less frequent.
SignatureIsTopTenWitness ==
    /\ "getTopTokens" \in done
    /\ Len(signature) = 10
    /\ LET tokens == tokenize(signText)
       IN  /\ \E inside \in Range(signature) :
                \E outside \in Range(tokens) \ Range(signature) :
                    FrequencyIn(tokens, outside) = FrequencyIn(tokens, inside)
           /\ \E inside \in Range(signature) :
                \E outside \in Range(tokens) \ Range(signature) :
                    FrequencyIn(tokens, outside) < FrequencyIn(tokens, inside)
           /\ FrequencyIn(tokens, signature[1]) > FrequencyIn(tokens, tokens[1])

(***************************************************************************)
(* AppProvider: the store and its copy in localStorage.  A mapping is      *)
(* kept without createdAt, an issue by its id, a message by its id and     *)
(* reviewed, where undefined counts as false.                              *)
(***************************************************************************)
defaultState == [linearIssues |-> <<>>, slackMessages |-> <<>>, mappings |-> <<>>]

\* setState((prev) => ({ ...prev, linearIssues: issues }))
setLinearIssues(prev, issues) == [prev EXCEPT !.linearIssues = issues]

addLinearIssue(prev, issue) ==
    [prev EXCEPT !.linearIssues = Append(prev.linearIssues, issue)]

setSlackMessages(prev, messages) == [prev EXCEPT !.slackMessages = messages]

\* msg.id === id ? { ...msg, ...updates } : msg, with updates = { reviewed }
updateSlackMessage(prev, id, reviewed) ==
    [prev EXCEPT !.slackMessages =
        [k \in DOMAIN prev.slackMessages |->
            IF prev.slackMessages[k].id = id
            THEN [prev.slackMessages[k] EXCEPT !.reviewed = reviewed]
            ELSE prev.slackMessages[k]]]

\* A variant of addMapping that keeps the mappings the message already has.
addMappingKeepingOld(prev, slackMessageId, linearIssueId) ==
    [prev EXCEPT !.mappings =
        Append(prev.mappings, [slackMessageId |-> slackMessageId,
                               linearIssueId |-> linearIssueId])]

addMapping(prev, slackMessageId, linearIssueId) ==
    [prev EXCEPT !.mappings =
        Append(SelectSeq(prev.mappings,
                         LAMBDA m : m.slackMessageId # slackMessageId),
               [slackMessageId |-> slackMessageId,
                linearIssueId |-> linearIssueId])]

removeMapping(prev, slackMessageId) ==
    [prev EXCEPT !.mappings =
        SelectSeq(prev.mappings, LAMBDA m : m.slackMessageId # slackMessageId)]

\* JSON.stringify(state): a text that JSON.parse turns into an equal state
JSONstringify(value) == [json |-> << value >>]

\* A text that JSON.parse throws on
InvalidJSON == [json |-> <<>>]

\* A variant of shouldSave that does not wait for the hydration.
shouldSaveAlways(hydrated) == TRUE

\* if (isHydrated) of the save effect
shouldSave(hydrated) == hydrated

MaxStoreCalls == 3

SlackIds == { "slack-1", "slack-2" }

LinearIds == { "FEED-1", "FEED-2" }

StoredIssue == [id |-> "FEED-1"]

StoredMessage == [id |-> "slack-1", reviewed |-> FALSE]

\* What an earlier session has left
SessionState ==
    [linearIssues |-> << StoredIssue >>, slackMessages |-> << StoredMessage >>,
     mappings |-> << [slackMessageId |-> "slack-1", linearIssueId |-> "FEED-1"] >>]

InitProvider ==
    /\ localStorage \in { <<>>, << InvalidJSON >>, << JSONstringify(SessionState) >> }
    /\ earlierSession = localStorage
    /\ appState = [value |-> defaultState, isDefault |-> TRUE]
    /\ isHydrated = FALSE
    /\ queuedState = <<>>
    /\ queuedHydrated = <<>>
    /\ effectsDue = <<>>
    /\ lastCall = <<>>
    /\ unsaved = FALSE
    /\ done = {}
    /\ IdleBesidesProvider

\* The first render: both effects are due, in the order of their hooks
Mount ==
    /\ "mount" \notin done
    /\ effectsDue' = << "load", "save" >>
    /\ done' = done \cup { "mount" }
    /\ UNCHANGED << localStorage, appState, isHydrated, queuedState,
                    queuedHydrated, earlierSession, lastCall, unsaved,
                    besidesProvider >>

\* The load effect
LoadEffect ==
    /\ effectsDue # <<>>
    /\ Head(effectsDue) = "load"
    /\ queuedState' =
          IF localStorage # <<>> /\ localStorage[1].json # <<>>
          THEN << [value |-> localStorage[1].json[1], isDefault |-> FALSE] >>
          ELSE queuedState
    /\ queuedHydrated' = << TRUE >>
    /\ effectsDue' = Tail(effectsDue)
    /\ done' = done \cup { "load" }
    /\ UNCHANGED << localStorage, appState, isHydrated, earlierSession,
                    lastCall, unsaved, besidesProvider >>

\* The save effect, with state and isHydrated of the render it belongs to
SaveEffect ==
    /\ effectsDue # <<>>
    /\ Head(effectsDue) = "save"
    /\ IF shouldSave(isHydrated)
       THEN /\ localStorage' = << JSONstringify(appState.value) >>
            /\ unsaved' = FALSE
       ELSE UNCHANGED << localStorage, unsaved >>
    /\ effectsDue' = Tail(effectsDue)
    /\ done' = done \cup { "save" }
    /\ UNCHANGED << appState, isHydrated, queuedState, queuedHydrated,
                    earlierSession, lastCall, besidesProvider >>

\* A render after setState or setIsHydrated.  The save effect is due when
\* state or isHydrated is not the same as in the last render; state is the
\* same only when it is defaultState again.
Render ==
    /\ effectsDue = <<>>
    /\ queuedState # <<>> \/ queuedHydrated # <<>>
    /\ LET newState == IF queuedState # <<>> THEN queuedState[1] ELSE appState
           newHydrated == IF queuedHydrated # <<>> THEN queuedHydrated[1]
                          ELSE isHydrated
           stateChanged == /\ queuedState # <<>>
                           /\ ~ (newState.isDefault /\ appState.isDefault)
       IN  /\ appState' = newState
           /\ isHydrated' = newHydrated
           /\ effectsDue' = IF stateChanged \/ newHydrated # isHydrated
                            THEN << "save" >> ELSE <<>>
           /\ unsaved' = (unsaved \/ stateChanged)
    /\ queuedState' = <<>>
    /\ queuedHydrated' = <<>>
    /\ done' = done \cup { "render" }
    /\ UNCHANGED << localStorage, earlierSession, lastCall, besidesProvider >>

\* The state a queued updater function is called with
LatestState == IF queuedState # <<>> THEN queuedState[1].value ELSE appState.value

\* The number of calls of functions of the store so far
CallsMade == IF lastCall = <<>> THEN 0 ELSE lastCall[1].number

\* A function of the store can be called after the effects of the last render
CanCall ==
    /\ "mount" \in done
    /\ effectsDue = <<>>
    /\ CallsMade < MaxStoreCalls

\* A function of the store is called and calls setState with an updater
\* function
Called(name, arguments, next) ==
    /\ CanCall
    /\ queuedState' = << [value |-> next, isDefault |-> FALSE] >>
    /\ lastCall' = << [name |-> name, arguments |-> arguments,
                       prev |-> LatestState, number |-> CallsMade + 1] >>
    /\ done' = done \cup { name }
    /\ UNCHANGED << localStorage, appState, isHydrated, queuedHydrated,
                    effectsDue, earlierSession, unsaved, besidesProvider >>

SetLinearIssues ==
    Called("setLinearIssues", << >>,
           setLinearIssues(LatestState, << StoredIssue >>))

AddLinearIssue ==
    Called("addLinearIssue", << >>, addLinearIssue(LatestState, StoredIssue))

SetSlackMessages ==
    Called("setSlackMessages", << >>,
           setSlackMessages(LatestState, << StoredMessage >>))

UpdateSlackMessage ==
    \E id \in SlackIds :
        Called("updateSlackMessage", << >>,
               updateSlackMessage(LatestState, id, TRUE))

AddMapping ==
    \E slackMessageId \in SlackIds, linearIssueId \in LinearIds :
        Called("addMapping", << slackMessageId, linearIssueId >>,
               addMapping(LatestState, slackMessageId, linearIssueId))

RemoveMapping ==
    \E slackMessageId \in SlackIds :
        Called("removeMapping", << slackMessageId >>,
               removeMapping(LatestState, slackMessageId))

\* localStorage.removeItem, then setState(defaultState), which does nothing
\* when no update is queued and state is defaultState already
ResetAllData ==
    /\ CanCall
    /\ localStorage' = <<>>
    /\ queuedState' =
          IF queuedState = <<>> /\ appState.isDefault THEN <<>>
          ELSE << [value |-> defaultState, isDefault |-> TRUE] >>
    /\ lastCall' = << [name |-> "resetAllData", arguments |-> << >>,
                       prev |-> LatestState, number |-> CallsMade + 1] >>
    /\ done' = done \cup { "resetAllData" }
    /\ UNCHANGED << appState, isHydrated, queuedHydrated, effectsDue,
                    earlierSession, unsaved, besidesProvider >>

NextProvider ==
    \/ Mount
    \/ LoadEffect
    \/ SaveEffect
    \/ Render
    \/ SetLinearIssues
    \/ AddLinearIssue
    \/ SetSlackMessages
    \/ UpdateSlackMessage
    \/ AddMapping
    \/ RemoveMapping
    \/ ResetAllData

SpecProvider == InitProvider /\ [][NextProvider]_vars

\* React runs the effects of a render and renders again after setState
FairSpecProvider ==
    /\ SpecProvider
    /\ WF_vars(Mount)
    /\ WF_vars(LoadEffect)
    /\ WF_vars(SaveEffect)
    /\ WF_vars(Render)

\* The issues a message is mapped to in a state
MappedTo(value, slackMessageId) ==
    { value.mappings[k].linearIssueId :
        k \in { n \in DOMAIN value.mappings :
                  value.mappings[n].slackMessageId = slackMessageId } }

\* The number of mappings of a message in a state
MappingCount(value, slackMessageId) ==
    Cardinality({ n \in DOMAIN value.mappings :
                    value.mappings[n].slackMessageId = slackMessageId })

\* The store was empty when the page was opened
FromEmptyStore == earlierSession = <<>> \/ earlierSession = << InvalidJSON >>

\* C26: starting from the empty store, after any sequence of calls the
\* mappings hold at most one mapping per Slack message; addMapping(s, l)
\* leaves s mapped to l only, removeMapping(s) leaves s unmapped, and
\* neither changes the mapping of another message.
OneMappingPerMessage ==
    FromEmptyStore =>
        /\ \A s \in SlackIds :
              /\ MappingCount(appState.value, s) <= 1
              /\ MappingCount(LatestState, s) <= 1
        /\ lastCall # <<>> /\ queuedState # <<>> =>
              LET call == lastCall[1]
              IN  /\ call.name = "addMapping" =>
                        /\ MappedTo(LatestState, call.arguments[1])
                           = { call.arguments[2] }
                        /\ \A s \in SlackIds \ { call.arguments[1] } :
                              MappedTo(LatestState, s) = MappedTo(call.prev, s)
                  /\ call.name = "removeMapping" =>
                        /\ MappedTo(LatestState, call.arguments[1]) = {}
                        /\ \A s \in SlackIds \ { call.arguments[1] } :
                              MappedTo(LatestState, s) = MappedTo(call.prev, s)
                  /\ call.name = "resetAllData" =>
                        LatestState.mappings = <<>>

\* A message that was mapped to one issue has been mapped to another one,
\* while the other message keeps its mapping.
OneMappingPerMessageWitness ==
    /\ FromEmptyStore
    /\ lastCall # <<>>
    /\ queuedState # <<>>
    /\ lastCall[1].name = "addMapping"
    /\ MappedTo(lastCall[1].prev, lastCall[1].arguments[1]) # {}
    /\ lastCall[1].arguments[2]
       \notin MappedTo(lastCall[1].prev, lastCall[1].arguments[1])
    /\ \E s \in SlackIds \ { lastCall[1].arguments[1] } :
          MappedTo(LatestState, s) # {}

\* Nothing is written before the load effect has run, and what an earlier
\* session has stored is in localStorage until a function of the store is
\* called
NoSaveBeforeLoad ==
    /\ "load" \notin done => localStorage = earlierSession
    /\ lastCall = <<>> /\ earlierSession = << JSONstringify(SessionState) >>
          => localStorage = earlierSession

\* C27: AppProvider never writes to localStorage before its load effect has
\* run, the data of an earlier session is not overwritten by the default
\* state during mount, and every change of state is eventually saved.
SavesOnlyAfterLoad == [] NoSaveBeforeLoad /\ (unsaved ~> ~ unsaved)

\* The data of an earlier session has been loaded, a mapping has been added
\* to it and the state has been saved.
SavesOnlyAfterLoadWitness ==
    /\ earlierSession = << JSONstringify(SessionState) >>
    /\ isHydrated
    /\ "addMapping" \in done
    /\ effectsDue = <<>>
    /\ queuedState = <<>>
    /\ Len(appState.value.mappings) = 2
    /\ localStorage = << JSONstringify(appState.value) >>

(***************************************************************************)
(* ReviewPage: the current message of the filtered list.  A click is       *)
(* handled with the values of the last render, and the page renders again  *)
(* before the next click.                                                  *)
(***************************************************************************)
\* filteredMessages
filteredMessagesOf(slackMessages, mode) ==
    IF mode = "unreviewed"
    THEN SelectSeq(slackMessages, LAMBDA message : ~ message.reviewed)
    ELSE slackMessages

\* A variant of indexAfterShrink that leaves the index alone.
indexKept(index, length) == index

\* The index after the current message has left the filtered list:
\* newFilteredLength = length - 1
indexAfterShrink(index, length) ==
    IF index >= length - 1 /\ length - 1 > 0 THEN length - 1 - 1 ELSE index

\* The index after a message has been linked with the filter "all"
indexAfterAdvance(index, length) ==
    IF index < length - 1 THEN index + 1 ELSE index

\* Math.max(0, prev - 1)
indexPrevious(index) == IF index - 1 > 0 THEN index - 1 ELSE 0

\* Math.min(filteredMessages.length - 1, prev + 1)
indexNext(index, length) == IF index + 1 < length - 1 THEN index + 1 ELSE length - 1

QuickJumpCount == 20

MaxMessages == 2

MaxIdeas == 1

\* Messages as the ingest page makes them: the id ends with the position
IngestedMessageId == [k \in 1 .. 9 |-> << "slack", k >>]

IngestedMessages ==
    UNION { [1 .. n -> BOOLEAN] : n \in 0 .. MaxMessages }

LocalIssue == [id |-> "LOCAL-1"]

InitReview ==
    /\ \E flags \in IngestedMessages :
          reviewStore =
              [linearIssues |-> << StoredIssue >>,
               slackMessages |->
                   [k \in DOMAIN flags |->
                       [id |-> IngestedMessageId[k], reviewed |-> flags[k]]],
               mappings |-> <<>>]
    /\ currentIndex = 0
    /\ filterMode = "unreviewed"
    /\ lastHandler = <<>>
    /\ done = {}
    /\ IdleBesidesReview

\* What the last render has computed
FilteredNow == filteredMessagesOf(reviewStore.slackMessages, filterMode)

HasCurrentMessage == currentIndex + 1 \in DOMAIN FilteredNow

CurrentMessage == FilteredNow[currentIndex + 1]

\* The card with its buttons is shown
CardShown == Len(reviewStore.slackMessages) > 0 /\ Len(FilteredNow) > 0

Handled(name) ==
    /\ lastHandler' = << [name |-> name, index |-> currentIndex] >>
    /\ done' = done \cup { name }
    /\ UNCHANGED besidesReview

\* The Previous button, disabled at the first message
HandlePrevious ==
    /\ CardShown
    /\ currentIndex # 0
    /\ currentIndex' = indexPrevious(currentIndex)
    /\ Handled("handlePrevious")
    /\ UNCHANGED << reviewStore, filterMode >>

\* The Next button, disabled at the last message
HandleNext ==
    /\ CardShown
    /\ currentIndex # Len(FilteredNow) - 1
    /\ currentIndex' = indexNext(currentIndex, Len(FilteredNow))
    /\ Handled("handleNext")
    /\ UNCHANGED << reviewStore, filterMode >>

\* One of the quick jump buttons of the first 20 messages
QuickJump ==
    /\ CardShown
    /\ \E idx \in 0 .. ((IF Len(FilteredNow) < QuickJumpCount
                         THEN Len(FilteredNow) ELSE QuickJumpCount) - 1) :
          currentIndex' = idx
    /\ Handled("quickJump")
    /\ UNCHANGED << reviewStore, filterMode >>

\* The filter buttons; with an empty filtered list "Show all messages"
HandleFilterChange ==
    /\ Len(reviewStore.slackMessages) > 0
    /\ \E mode \in { "all", "unreviewed" } :
          /\ Len(FilteredNow) = 0 => mode = "all"
          /\ filterMode' = mode
    /\ currentIndex' = 0
    /\ Handled("handleFilterChange")
    /\ UNCHANGED << reviewStore >>

HandleToggleReviewed ==
    /\ CardShown
    /\ HasCurrentMessage
    /\ LET newReviewed == ~ CurrentMessage.reviewed
       IN  /\ reviewStore' = updateSlackMessage(reviewStore, CurrentMessage.id,
                                                newReviewed)
           /\ currentIndex' =
                 IF newReviewed /\ filterMode = "unreviewed"
                 THEN indexAfterShrink(currentIndex, Len(FilteredNow))
                 ELSE currentIndex
    /\ Handled("handleToggleReviewed")
    /\ UNCHANGED << filterMode >>

\* The index after handleLinkToIssue and handleCreateNewIdea
indexAfterLink(mode, index, length) ==
    IF mode = "unreviewed" THEN indexAfterShrink(index, length)
    ELSE indexAfterAdvance(index, length)

\* A suggestion or a search result is clicked
HandleLinkToIssue ==
    /\ CardShown
    /\ HasCurrentMessage
    /\ \E k \in DOMAIN reviewStore.linearIssues :
          reviewStore' =
              updateSlackMessage(
                  addMapping(reviewStore, CurrentMessage.id,
                             reviewStore.linearIssues[k].id),
                  CurrentMessage.id, TRUE)
    /\ currentIndex' = indexAfterLink(filterMode, currentIndex, Len(FilteredNow))
    /\ Handled("handleLinkToIssue")
    /\ UNCHANGED << filterMode >>

HandleCreateNewIdea ==
    /\ CardShown
    /\ HasCurrentMessage
    /\ Len(reviewStore.linearIssues) < 1 + MaxIdeas
    /\ reviewStore' =
          updateSlackMessage(
              addMapping(addLinearIssue(reviewStore, LocalIssue),
                         CurrentMessage.id, LocalIssue.id),
              CurrentMessage.id, TRUE)
    /\ currentIndex' = indexAfterLink(filterMode, currentIndex, Len(FilteredNow))
    /\ Handled("handleCreateNewIdea")
    /\ UNCHANGED << filterMode >>

NextReview ==
    \/ HandlePrevious
    \/ HandleNext
    \/ QuickJump
    \/ HandleFilterChange
    \/ HandleToggleReviewed
    \/ HandleLinkToIssue
    \/ HandleCreateNewIdea

SpecReview == InitReview /\ [][NextReview]_vars

\* C28: on the review page, after any sequence of Previous, Next, quick
\* jump, filter change, toggle reviewed, link to issue and create new idea,
\* the current index is within 0 .. length - 1 whenever the filtered list is
\* not empty.
CurrentIndexInRange ==
    Len(FilteredNow) > 0 => currentIndex \in 0 .. (Len(FilteredNow) - 1)

\* The last unreviewed message of several has been linked to an issue, and
\* the index has moved back to the new last message.
CurrentIndexInRangeWitness ==
    /\ lastHandler # <<>>
    /\ lastHandler[1].name = "handleLinkToIssue"
    /\ filterMode = "unreviewed"
    /\ Len(FilteredNow) > 0
    /\ currentIndex = Len(FilteredNow) - 1
    /\ currentIndex < lastHandler[1].index

(***************************************************************************)
(* fetchChannelMessages: the pages of conversations.history.               *)
(***************************************************************************)
\* msg.type === "message" && !msg.thread_ts || msg.thread_ts === msg.ts,
\* where && binds tighter than ||
isKept(message) ==
    \/ message.type = "message" /\ message.thread_ts = <<>>
    \/ message.thread_ts = << message.ts >>

MaxPages == 2

MaxPageMessages == 2

\* Messages of a response: of two types, without thread_ts, with the
\* thread_ts of a thread parent and with the thread_ts of a reply
HistoryMessages ==
    [type : { "message", "channel_join" }, ts : { "2.0" },
     thread_ts : { <<>>, << "2.0" >>, << "1.0" >> }]

\* The responses of conversations.history; messages is optional
HistoryResponses ==
    [ok : { TRUE },
     messages : { <<>> } \cup { << page >> :
                     page \in SeqsUpTo(HistoryMessages, MaxPageMessages) },
     has_more : BOOLEAN,
     next_cursor : { <<>>, << "next" >> }]
    \cup { [ok |-> FALSE, messages |-> <<>>, has_more |-> FALSE,
            next_cursor |-> <<>>] }

InitFetch ==
    /\ allMessages = <<>>
    /\ cursor = <<>>
    /\ pagesFetched = 0
    /\ fetchStatus = "fetching"
    /\ done = {}
    /\ IdleBesidesFetch

\* One iteration of the loop, with the response it receives
FetchPage ==
    /\ fetchStatus = "fetching"
    /\ \E data \in HistoryResponses :
          /\ pagesFetched + 1 = MaxPages =>
                ~ (data.ok /\ data.has_more /\ data.next_cursor # <<>>)
          /\ IF ~ data.ok
             THEN /\ fetchStatus' = "thrown"
                  /\ UNCHANGED << allMessages, cursor >>
             ELSE /\ allMessages' =
                        IF data.messages # <<>>
                        THEN allMessages \o SelectSeq(data.messages[1], isKept)
                        ELSE allMessages
                  /\ cursor' = data.next_cursor
                  /\ fetchStatus' =
                        IF data.next_cursor = <<>> \/ ~ data.has_more
                        THEN "returned" ELSE "fetching"
    /\ pagesFetched' = pagesFetched + 1
    /\ done' = done \cup { "fetchPage" }
    /\ UNCHANGED besidesFetch

NextFetch == FetchPage

SpecFetch == InitFetch /\ [][NextFetch]_vars

\* A message is a thread reply
IsThreadReply(message) ==
    message.thread_ts # <<>> /\ message.thread_ts # << message.ts >>

\* C29 as stated: every message fetchChannelMessages returns has the type
\* "message" and is not a thread reply.
ReturnsOnlyTopLevelMessages ==
    fetchStatus = "returned" =>
        \A k \in DOMAIN allMessages :
            /\ allMessages[k].type = "message"
            /\ ~ IsThreadReply(allMessages[k])

\* What the code does: no thread reply is returned, and a message of another
\* type is returned exactly when its thread_ts is its ts.
ReturnsNoThreadReply ==
    fetchStatus = "returned" =>
        \A k \in DOMAIN allMessages :
            /\ ~ IsThreadReply(allMessages[k])
            /\ allMessages[k].type # "message"
                  => allMessages[k].thread_ts = << allMessages[k].ts >>

(***************************************************************************)
(* The CSV export of the Linear route and parseLinearCSV.  A text is a     *)
(* sequence of characters; in the header line a column name is one element *)
(* that stands for its letters, and the names the parser looks for are in  *)
(* lowercase.                                                              *)
(***************************************************************************)
Quote == "\""

Comma == ","

LineFeed == "\n"

\* str.replace(/"/g, '""')
RECURSIVE doubleQuotes(_)
doubleQuotes(str) ==
    IF str = <<>> THEN <<>>
    ELSE (IF Head(str) = Quote THEN << Quote, Quote >> ELSE << Head(str) >>)
         \o doubleQuotes(Tail(str))

\* escapeCSV(value), value optional
escapeCSV(value) ==
    IF value = <<>> THEN <<>>
    ELSE IF \E k \in DOMAIN value[1] : value[1][k] \in { Comma, LineFeed, Quote }
    THEN << Quote >> \o doubleQuotes(value[1]) \o << Quote >>
    ELSE value[1]

\* parts.join(separator)
RECURSIVE arrayJoin(_, _)
arrayJoin(parts, separator) ==
    IF parts = <<>> THEN <<>>
    ELSE IF Len(parts) = 1 THEN parts[1]
    ELSE parts[1] \o separator \o arrayJoin(Tail(parts), separator)

CsvHeaders ==
    << << "identifier" >>, << "title" >>, << "description" >>, << "status" >>,
       << "team" >>, << "creator" >>, << "assignee" >>, << "priority" >>,
       << "labels" >>, << "customerCount" >>, << "customers" >>,
       << "customerRequests" >>, << "createdAt" >>, << "updatedAt" >>,
       << "url" >> >>

\* The row of an issue without team, creator, assignee, labels and customer
\* needs, of priority 0, with one-character dates and url
csvRow(issue) ==
    << escapeCSV(<< issue.identifier >>), escapeCSV(<< issue.title >>),
       escapeCSV(issue.description), escapeCSV(issue.state),
       escapeCSV(<<>>), escapeCSV(<<>>), escapeCSV(<<>>),
       escapeCSV(<< << "0" >> >>), escapeCSV(<<>>), escapeCSV(<< << "0" >> >>),
       escapeCSV(<< <<>> >>), escapeCSV(<< <<>> >>),
       escapeCSV(<< << "1" >> >>), escapeCSV(<< << "2" >> >>),
       escapeCSV(<< << "u" >> >>) >>

issuesToCSV(issues) ==
    arrayJoin(<< arrayJoin(CsvHeaders, << Comma >>) >>
              \o [k \in DOMAIN issues |->
                     arrayJoin(csvRow(issues[k]), << Comma >>)],
              << LineFeed >>)

\* The loop of parseCSVLine from position i (counted from 1)
RECURSIVE parseCSVLineFrom(_, _, _, _, _)
parseCSVLineFrom(line, i, inQuotes, current, fields) ==
    IF i > Len(line)
    THEN IF inQuotes THEN [complete |-> FALSE, fields |-> <<>>]
         ELSE [complete |-> TRUE, fields |-> Append(fields, current)]
    ELSE IF inQuotes
    THEN IF line[i] = Quote
         THEN IF i + 1 <= Len(line) /\ line[i + 1] = Quote
              THEN parseCSVLineFrom(line, i + 2, TRUE,
                                    Append(current, Quote), fields)
              ELSE parseCSVLineFrom(line, i + 1, FALSE, current, fields)
         ELSE parseCSVLineFrom(line, i + 1, TRUE, Append(current, line[i]),
                               fields)
    ELSE IF line[i] = Quote
    THEN parseCSVLineFrom(line, i + 1, TRUE, current, fields)
    ELSE IF line[i] = Comma
    THEN parseCSVLineFrom(line, i + 1, FALSE, <<>>, Append(fields, current))
    ELSE parseCSVLineFrom(line, i + 1, FALSE, Append(current, line[i]), fields)

\* parseCSVLine(line): complete is false where the code returns null
parseCSVLine(line) == parseCSVLineFrom(line, 1, FALSE, <<>>, <<>>)

\* csvContent.split("\n")
RECURSIVE splitLines(_)
splitLines(content) ==
    IF \A k \in DOMAIN content : content[k] # LineFeed THEN << content >>
    ELSE LET first == CHOOSE k \in DOMAIN content :
                          /\ content[k] = LineFeed
                          /\ \A l \in 1 .. (k - 1) : content[l] # LineFeed
         IN  << SubSeq(content, 1, first - 1) >>
             \o splitLines(SubSeq(content, first + 1, Len(content)))

\* String.prototype.trim
trim(str) ==
    IF \A k \in DOMAIN str : str[k] \in WhiteSpace THEN <<>>
    ELSE LET inked == { k \in DOMAIN str : str[k] \notin WhiteSpace }
             first == CHOOSE k \in inked : \A l \in inked : k <= l
             last == CHOOSE k \in inked : \A l \in inked : l <= k
         IN  SubSeq(str, first, last)

\* array.indexOf(element), counted from 0
indexOf(array, element) ==
    IF \A k \in DOMAIN array : array[k] # element THEN -1
    ELSE (CHOOSE k \in DOMAIN array :
              /\ array[k] = element
              /\ \A l \in 1 .. (k - 1) : array[l] # element) - 1

\* detectColumnMapping(headers): <<>> where the code returns null
detectColumnMapping(headers) ==
    LET lowerHeaders == [k \in DOMAIN headers |-> trim(toLowerCase(headers[k]))]
    IN  IF indexOf(lowerHeaders, << "identifier" >>) # -1
        THEN << [id |-> indexOf(lowerHeaders, << "identifier" >>),
                 title |-> indexOf(lowerHeaders, << "title" >>),
                 description |-> indexOf(lowerHeaders, << "description" >>),
                 status |-> indexOf(lowerHeaders, << "status" >>)] >>
        ELSE IF indexOf(lowerHeaders, << "id" >>) # -1
        THEN LET titleIdx == indexOf(lowerHeaders, << "title" >>)
                 descIdx == indexOf(lowerHeaders, << "description" >>)
                 statusIdx == indexOf(lowerHeaders, << "status" >>)
             IN  << [id |-> indexOf(lowerHeaders, << "id" >>),
                     title |-> IF titleIdx # -1 THEN titleIdx ELSE 2,
                     description |-> IF descIdx # -1 THEN descIdx ELSE 3,
                     status |-> IF statusIdx # -1 THEN statusIdx ELSE 4] >>
        ELSE <<>>

\* fields[index]?.trim(): optional
trimmedField(fields, index) ==
    IF index + 1 \in DOMAIN fields THEN << trim(fields[index + 1]) >> ELSE <<>>

\* value || undefined for an optional text
orUndefined(value) == IF value = <<>> \/ value[1] = <<>> THEN <<>> ELSE value

IsLetter(ch) == ch \in Range(UpperCase) \cup Range(LowerCase)

\* /^[A-Z]+-\d+$/i.test(id)
looksLikeIssueId(id) ==
    \E dash \in DOMAIN id :
        /\ id[dash] = "-"
        /\ dash > 1
        /\ dash < Len(id)
        /\ \A k \in 1 .. (dash - 1) : IsLetter(id[k])
        /\ \A k \in (dash + 1) .. Len(id) : id[k] \in Digit

\* The body of the loop of parseLinearCSV for a line that is not skipped, on
\* loop = [currentLine, pendingIssue, results]
parseRow(mapping, loop, line) ==
    LET currentLine == IF loop.currentLine # <<>>
                       THEN loop.currentLine \o << LineFeed >> \o line
                       ELSE line
        parsed == parseCSVLine(currentLine)
        id == trimmedField(parsed.fields, mapping.id)
        title == trimmedField(parsed.fields, mapping.title)
        isIssue == /\ orUndefined(id) # <<>>
                   /\ looksLikeIssueId(id[1])
        continuation == IF mapping.description # -1
                        THEN trimmedField(parsed.fields, mapping.description)
                        ELSE <<>>
    IN  IF ~ parsed.complete THEN [loop EXCEPT !.currentLine = currentLine]
        ELSE IF isIssue /\ orUndefined(title) # <<>>
        THEN [currentLine |-> <<>>,
              results |-> loop.results \o loop.pendingIssue,
              pendingIssue |->
                  << [id |-> id[1], title |-> title[1],
                      description |->
                          IF mapping.description # -1
                          THEN orUndefined(trimmedField(parsed.fields,
                                                        mapping.description))
                          ELSE <<>>,
                      status |->
                          IF mapping.status # -1
                          THEN orUndefined(trimmedField(parsed.fields,
                                                        mapping.status))
                          ELSE <<>>] >>]
        ELSE IF loop.pendingIssue # <<>> /\ orUndefined(continuation) # <<>>
                /\ ~ isIssue
        THEN [currentLine |-> <<>>,
              results |-> loop.results,
              pendingIssue |->
                  << [loop.pendingIssue[1] EXCEPT !.description =
                         IF loop.pendingIssue[1].description # <<>>
                         THEN << loop.pendingIssue[1].description[1]
                                 \o << LineFeed >> \o continuation[1] >>
                         ELSE continuation] >>]
        ELSE [loop EXCEPT !.currentLine = <<>>]

\* if (!line.trim()) continue
skipsLine(line) == trim(line) = <<>>

\* for (let i = 1; i < lines.length; i++), with i counted from 1 here
RECURSIVE parseRows(_, _, _, _)
parseRows(mapping, loop, lines, i) ==
    IF i > Len(lines) THEN loop
    ELSE parseRows(mapping,
                   IF skipsLine(lines[i]) THEN loop
                   ELSE parseRow(mapping, loop, lines[i]),
                   lines, i + 1)

parseLinearCSV(csvContent) ==
    LET lines == splitLines(csvContent)
        headers == parseCSVLine(lines[1])
        mapping == detectColumnMapping(headers.fields)
    IN  IF Len(lines) < 2 THEN <<>>
        ELSE IF ~ headers.complete THEN <<>>
        ELSE IF mapping = <<>> \/ mapping[1].id = -1 \/ mapping[1].title = -1
        THEN <<>>
        ELSE LET loop == parseRows(mapping[1],
                             [currentLine |-> <<>>, pendingIssue |-> <<>>,
                              results |-> <<>>],
                             lines, 2)
             IN  loop.results \o loop.pendingIssue

MaxCsvIssues == 2

\* Issues of the Linear API: with a comma in the title, with a comma, a
\* double quote, a line break and an empty line in the description, and with
\* surrounding spaces
CsvIssuePool ==
    { [identifier |-> << "E", "-", "1" >>, title |-> << "T" >>,
       description |-> <<>>, state |-> <<>>],
      [identifier |-> << "E", "-", "2" >>, title |-> << "a", ",", "b" >>,
       description |-> << << "c", ",", "d" >> >>, state |-> << << "S" >> >>],
      [identifier |-> << "A", "-", "3" >>, title |-> << "T" >>,
       description |-> << << "q", "\"", "r" >> >>, state |-> << << "S" >> >>],
      [identifier |-> << "A", "-", "4" >>, title |-> << "T" >>,
       description |-> << << "a", "\n", "b" >> >>, state |-> <<>>],
      [identifier |-> << "A", "-", "5" >>, title |-> << "T" >>,
       description |-> << << "a", "\n", "\n", "b" >> >>,
       state |-> << << "S" >> >>],
      [identifier |-> << "e", "-", "6" >>, title |-> << " ", "T", " " >>,
       description |-> << << " ", "d", "\"", "\n", "e", " " >> >>,
       state |-> <<>>] }

InitCsv ==
    /\ exportedIssues \in SeqsUpTo(CsvIssuePool, MaxCsvIssues)
    /\ csvFile = <<>>
    /\ importedIssues = <<>>
    /\ done = {}
    /\ IdleBesidesCsv

\* The Linear route exports the issues
Export ==
    /\ "issuesToCSV" \notin done
    /\ csvFile' = issuesToCSV(exportedIssues)
    /\ done' = done \cup { "issuesToCSV" }
    /\ UNCHANGED << exportedIssues, importedIssues, besidesCsv >>

\* The ingest page parses the exported file
Import ==
    /\ "issuesToCSV" \in done
    /\ "parseLinearCSV" \notin done
    /\ importedIssues' = parseLinearCSV(csvFile)
    /\ done' = done \cup { "parseLinearCSV" }
    /\ UNCHANGED << exportedIssues, csvFile, besidesCsv >>

NextCsv == Export \/ Import

SpecCsv == InitCsv /\ [][NextCsv]_vars

\* An optional text, trimmed; an empty text counts as absent
TrimmedOptional(value) ==
    IF value = <<>> THEN <<>> ELSE orUndefined(<< trim(value[1]) >>)

\* An issue as the import should return it
ImportedAs(issue) ==
    [id |-> trim(issue.identifier), title |-> trim(issue.title),
     description |-> TrimmedOptional(issue.description),
     status |-> TrimmedOptional(issue.state)]

\* The description of an issue has an empty line
HasEmptyLine(issue) ==
    /\ issue.description # <<>>
    /\ \E k \in 1 .. (Len(issue.description[1]) - 1) :
          /\ issue.description[1][k] = LineFeed
          /\ issue.description[1][k + 1] = LineFeed

\* C30 as stated: parseLinearCSV of the CSV that issuesToCSV produces
\* returns the same issues in the same order, with the same identifier,
\* title, description and status up to surrounding whitespace.
CsvRoundTrip ==
    "parseLinearCSV" \in done =>
        importedIssues = [k \in DOMAIN exportedIssues |->
                             ImportedAs(exportedIssues[k])]

\* What the code does: the round trip holds when no description has an
\* empty line.
CsvRoundTripWithoutEmptyLines ==
    /\ "parseLinearCSV" \in done
    /\ \A k \in DOMAIN exportedIssues : ~ HasEmptyLine(exportedIssues[k])
    => importedIssues = [k \in DOMAIN exportedIssues |->
                            ImportedAs(exportedIssues[k])]

====
